--------------------------- MODULE RepositoryProofs ---------------------------
(***************************************************************************)
(* Proofs about the repository service and its clients, for any number of  *)
(* requests, names, archives and dependency lists.                         *)
(*                                                                         *)
(* First the service alone: it keeps its promises whoever asks.  Then the  *)
(* publishers: what the service does alone it does for them, a registered  *)
(* package is published, and the catalogue is closed under dependencies at *)
(* every moment.  Last the migration and the upload handlers it races      *)
(* with, for any number of workers and runs, and its resumable uploads.    *)
(***************************************************************************)
EXTENDS PackagePublication, BlobMigration, ResumableUpload, TLAPS

-----------------------------------------------------------------------------
(*****************************************************************************)
(* THE SERVICE                                                              *)
(*****************************************************************************)

-----------------------------------------------------------------------------
(* The inductive invariant.                                                *)

Same(p, f) ==
    /\ p.fullname = f.fullname
    /\ p.sha1 = f.sha1
    /\ f.dependencies \in {Absent, p.dependencies}

InBucket(n, d) == bucket[n] # None /\ bucket[n].sha1 = d

Published(f) == (\E p \in records : Same(p, f)) /\ InBucket(f.fullname, f.sha1)

Justified(f) ==
    \/ \E p \in records :
          /\ p.fullname = f.fullname
          /\ p.sha1 # f.sha1 \/ f.dependencies \notin {Absent, p.dependencies}
    \/ /\ bucket[f.fullname] # None
       /\ bucket[f.fullname].bytes # f.bytes

\* Where the handler of a request is, and what that says about its variables
\* and about the upload it works on.
Local(r) ==
    /\ pc[r] # "idle" => form[r] \in Forms
    /\ pc[r] \in {"idle", "upload", "validate", "lookup"} => known[r] = None
    /\ pc[r] \in {"idle", "upload", "validate", "lookup", "peek", "stage",
                  "copy", "confirm", "put"} => status[r] = "none"
    /\ pc[r] = "unstage" => status[r] \in {"none", "400", "409", "503"}
    /\ pc[r] = "validate" /\ Acceptable(form[r]) => blobs[r] = form[r].bytes
    /\ pc[r] \in {"lookup", "peek", "stage", "copy", "confirm", "unstage", "put"}
          => blobs[r] = form[r].bytes /\ Acceptable(form[r])
    /\ pc[r] = "copy" => staging[r] = [sha1 |-> form[r].sha1,
                                       bytes |-> form[r].bytes]
    /\ \/ pc[r] \in {"copy", "confirm", "put"}
       \/ pc[r] = "unstage" /\ status[r] = "none"
       => Sha1[form[r].bytes] = form[r].sha1

\* What the record a handler found, if any, says about its upload.
Known(r) ==
    /\ pc[r] = "peek" => known[r] # None
    /\ pc[r] = "put" => known[r] = None
    /\ known[r] # None => known[r] \in records
    /\ pc[r] \in {"peek", "stage", "copy", "confirm", "unstage"}
          /\ known[r] # None => Same(known[r], form[r])
    /\ pc[r] \in {"stage", "copy", "confirm", "unstage", "put"}
          /\ known[r] = None => form[r].fullname \notin DOMAIN Legacy

\* What a handler has achieved, and what its response rests on.
Achieved(r) ==
    /\ pc[r] = "confirm" => bucket[form[r].fullname] # None
    /\ pc[r] = "put" \/ (pc[r] = "unstage" /\ status[r] = "none")
          => InBucket(form[r].fullname, form[r].sha1)
    /\ status[r] = "ok" => pc[r] # "idle" /\ Published(form[r])
    /\ status[r] = "409" => pc[r] # "idle" /\ Justified(form[r])

\* A record is a legacy record or was put by a handler that has ended.
RecordInv(p) ==
    \/ p.blob \in DOMAIN Legacy /\ p = LegacyRecord(p.blob)
    \/ /\ p.blob \in Requests
       /\ p.fullname \notin DOMAIN Legacy
       /\ pc[p.blob] = "done" /\ status[p.blob] \in {"ok", "500"}
       /\ InBucket(p.fullname, p.sha1)
       /\ blobs[p.blob] # None
       /\ Sha1[blobs[p.blob]] = p.sha1

LegacyInv ==
    \A n \in DOMAIN Legacy :
        LegacyRecord(n) \in records /\ blobs[n] = Legacy[n].bytes

BucketInv ==
    \A n \in Fullnames : bucket[n] # None =>
        /\ Sha1[bucket[n].bytes] = bucket[n].sha1
        /\ n \in DOMAIN Legacy => bucket[n].sha1 = Sha1[Legacy[n].bytes]

IInv ==
    /\ TypeOK
    /\ \A r \in Requests : Local(r) /\ Known(r) /\ Achieved(r)
    /\ \A p \in records : RecordInv(p)
    /\ LegacyInv
    /\ BucketInv

-----------------------------------------------------------------------------
(* What a step of one handler leaves alone of the others.                  *)

\* The stores as the other handlers see them: objects under package names and
\* records stay, and whatever is added belongs to request r.
StoresGrow(r) ==
    /\ \A n \in Fullnames : bucket[n] # None => bucket'[n] = bucket[n]
    /\ records \subseteq records'
    /\ \A p \in records' : p \in records \/ p.blob = r
    /\ \A n \in Fullnames : blobs'[n] = blobs[n]

Untouched(q) ==
    /\ pc'[q] = pc[q] /\ form'[q] = form[q]
    /\ known'[q] = known[q] /\ status'[q] = status[q]
    /\ blobs'[q] = blobs[q] /\ staging'[q] = staging[q]

\* The invariant of a handler survives the steps of every other handler.
LEMMA OtherHandlers ==
    ASSUME NEW r \in Requests, NEW q \in Requests, TypeOK, StoresGrow(r),
           Untouched(q), Local(q), Known(q), Achieved(q)
    PROVE  Local(q)' /\ Known(q)' /\ Achieved(q)'
<1>1. Local(q)'
  BY DEF Local, Untouched, Acceptable
<1>2. Known(q)'
  BY DEF Known, Untouched, StoresGrow, Same
<1>3. pc[q] # "idle" => form[q] \in Form /\ form[q].fullname \in Fullnames
  BY ConstantsAssumption DEF Local, Form
<1>4. Achieved(q)'
  <2>1. (pc[q] = "confirm" => bucket[form[q].fullname] # None)'
    BY <1>3 DEF Achieved, Untouched, StoresGrow
  <2>2. (pc[q] = "put" \/ (pc[q] = "unstage" /\ status[q] = "none")
            => InBucket(form[q].fullname, form[q].sha1))'
    BY <1>3 DEF Achieved, Untouched, StoresGrow, InBucket
  <2>3. (status[q] = "ok" => pc[q] # "idle" /\ Published(form[q]))'
    BY <1>3 DEF Achieved, Untouched, StoresGrow, Published, InBucket, Same
  <2>4. (status[q] = "409" => pc[q] # "idle" /\ Justified(form[q]))'
    BY <1>3 DEF Achieved, Untouched, StoresGrow, Justified
  <2>5. QED
    BY <2>1, <2>2, <2>3, <2>4 DEF Achieved
<1>5. QED
  BY <1>1, <1>2, <1>4

\* A record stays sound: the handler at work has made none, or leaves the one
\* it made alone.
LEMMA OldRecords ==
    ASSUME NEW r \in Requests, NEW p \in records, TypeOK, StoresGrow(r),
           RecordInv(p),
           pc[r] = "done" => /\ pc'[r] = pc[r] /\ status'[r] = status[r]
                             /\ blobs'[r] = blobs[r],
           \A q \in Requests : q # r => Untouched(q)
    PROVE  RecordInv(p)'
BY DEF RecordInv, StoresGrow, Untouched, InBucket, LegacyRecord, TypeOK, Package

\* A step of r preserves the invariant if it does so as far as r is concerned.
LEMMA StepOfOne ==
    ASSUME NEW r \in Requests, IInv, TypeOK', StoresGrow(r),
           \A q \in Requests : q # r => Untouched(q),
           pc[r] = "done" => /\ pc'[r] = pc[r] /\ status'[r] = status[r]
                             /\ blobs'[r] = blobs[r],
           Local(r)', Known(r)', Achieved(r)',
           \A p \in records' : p \notin records => RecordInv(p)',
           BucketInv'
    PROVE  IInv'
<1>1. \A q \in Requests : (Local(q) /\ Known(q) /\ Achieved(q))'
  <2>1. TAKE q \in Requests
  <2>2. CASE q = r
    BY <2>2
  <2>3. CASE q # r
    <3>1. Local(q) /\ Known(q) /\ Achieved(q) /\ TypeOK /\ Untouched(q)
      BY <2>3 DEF IInv
    <3>2. QED
      BY <3>1, OtherHandlers
  <2>4. QED
    BY <2>2, <2>3
<1>2. \A p \in records' : RecordInv(p)'
  <2>1. TAKE p \in records'
  <2>2. CASE p \in records
    <3>1. RecordInv(p) /\ TypeOK
      BY <2>2 DEF IInv
    <3>2. QED
      BY <2>2, <3>1, OldRecords
  <2>3. QED
    BY <2>2
<1>3. LegacyInv'
  BY ConstantsAssumption DEF IInv, LegacyInv, LegacyRecord, StoresGrow
<1>4. QED
  BY <1>1, <1>2, <1>3 DEF IInv

-----------------------------------------------------------------------------
(* The invariant holds initially and every action preserves it.            *)

LEMMA InitEstablishes == Init => IInv
<1>1. SUFFICES ASSUME Init PROVE IInv
  OBVIOUS
<1>2. TypeOK
  <2>1. \A n \in DOMAIN Legacy : /\ Legacy[n].bytes \in Contents
                                /\ Legacy[n].dependencies \in DepLists
                                /\ n \in Fullnames
                                /\ Sha1[Legacy[n].bytes] \in Digests
    BY ConstantsAssumption
  <2>2. records \subseteq Package
    BY <1>1, <2>1 DEF Init, LegacyRecord, Package, BlobKeys
  <2>3. bucket \in [Fullnames -> Object \cup {None}]
    BY <1>1, <2>1 DEF Init, Object
  <2>4. blobs \in [BlobKeys -> Contents \cup {None}]
    BY <1>1, <2>1 DEF Init
  <2>5. QED
    BY <1>1, <2>2, <2>3, <2>4 DEF Init, TypeOK, Statuses, Ended
<1>3. \A r \in Requests : Local(r) /\ Known(r) /\ Achieved(r)
  BY <1>1 DEF Init, Local, Known, Achieved
<1>4. \A p \in records : RecordInv(p)
  BY <1>1 DEF Init, RecordInv, LegacyRecord
<1>5. LegacyInv
  BY <1>1, ConstantsAssumption DEF Init, LegacyInv, BlobKeys
<1>6. BucketInv
  BY <1>1, ConstantsAssumption DEF Init, BucketInv
<1>7. QED
  BY <1>2, <1>3, <1>4, <1>5, <1>6 DEF IInv

\* The steps that touch no store: only the handler's own variables change.
LEMMA NoStoreTouched ==
    ASSUME NEW r \in Requests, IInv, UNCHANGED storeVars,
           \A q \in Requests : q # r =>
               /\ pc'[q] = pc[q] /\ form'[q] = form[q]
               /\ known'[q] = known[q] /\ status'[q] = status[q],
           pc[r] # "done",
           TypeOK', Local(r)', Known(r)', Achieved(r)'
    PROVE  IInv'
<1>1. StoresGrow(r)
  BY DEF storeVars, StoresGrow
<1>2. \A q \in Requests : q # r => Untouched(q)
  BY DEF storeVars, Untouched
<1>3. BucketInv'
  BY DEF IInv, BucketInv, storeVars
<1>4. \A p \in records' : p \notin records => RecordInv(p)'
  BY DEF storeVars
<1>5. QED
  BY <1>1, <1>2, <1>3, <1>4, StepOfOne

LEMMA UploadUrlPreserves ==
    ASSUME NEW r \in Requests, IInv, UploadUrl(r) PROVE IInv'
<1>1. TypeOK'
  BY DEF IInv, TypeOK, UploadUrl, Goto, Decide, storeVars, Statuses, Ended
<1>2. Local(r)'
  BY DEF IInv, TypeOK, UploadUrl, Goto, Decide, Local, storeVars
<1>3. Known(r)'
  BY DEF IInv, TypeOK, UploadUrl, Goto, Decide, Local, Known, storeVars
<1>4. Achieved(r)'
  BY DEF IInv, TypeOK, UploadUrl, Goto, Decide, Local, Achieved, storeVars
<1>5. QED
  BY <1>1, <1>2, <1>3, <1>4, NoStoreTouched
     DEF IInv, TypeOK, UploadUrl, Goto, Decide

LEMMA StoreUploadPreserves ==
    ASSUME NEW r \in Requests, IInv, StoreUpload(r) PROVE IInv'
<1>1. form[r] \in Form
  BY ConstantsAssumption DEF IInv, Local, StoreUpload
<1>2. TypeOK'
  BY <1>1 DEF IInv, TypeOK, StoreUpload, Goto, BlobKeys, Form
<1>3. Local(r)'
  BY DEF IInv, TypeOK, StoreUpload, Goto, Local, Acceptable, BlobKeys
<1>4. Known(r)'
  BY DEF IInv, TypeOK, StoreUpload, Goto, Local, Known
<1>5. Achieved(r)'
  BY DEF IInv, TypeOK, StoreUpload, Goto, Local, Achieved
<1>6. StoresGrow(r) /\ \A q \in Requests : q # r => Untouched(q)
  BY ConstantsAssumption
     DEF IInv, TypeOK, StoreUpload, Goto, StoresGrow, Untouched, BlobKeys
<1>7. BucketInv'
  BY DEF IInv, StoreUpload, BucketInv
<1>8. QED
  BY <1>2, <1>3, <1>4, <1>5, <1>6, <1>7, StepOfOne DEF StoreUpload

LEMMA ValidatePreserves ==
    ASSUME NEW r \in Requests, IInv, Validate(r) PROVE IInv'
<1>1. TypeOK'
  BY DEF IInv, TypeOK, Validate, Reject, Goto, Decide, storeVars, Statuses, Ended
<1>2. Local(r)'
  BY DEF IInv, TypeOK, Validate, Reject, Goto, Decide, Local, storeVars
<1>3. Known(r)'
  BY DEF IInv, TypeOK, Validate, Reject, Goto, Decide, Local, Known, storeVars
<1>4. Achieved(r)'
  BY DEF IInv, TypeOK, Validate, Reject, Goto, Decide, Local, Achieved, storeVars
<1>5. QED
  BY <1>1, <1>2, <1>3, <1>4, NoStoreTouched
     DEF IInv, TypeOK, Validate, Reject, Goto, Decide

LEMMA LookupPreserves ==
    ASSUME NEW r \in Requests, IInv, Lookup(r) PROVE IInv'
<1>1. form[r] \in Form /\ Acceptable(form[r]) /\ pc[r] = "lookup"
      /\ blobs[r] = form[r].bytes /\ known[r] = None /\ status[r] = "none"
  BY ConstantsAssumption DEF IInv, Local, Lookup
<1>2. TypeOK'
  BY DEF IInv, TypeOK, Lookup, Reject, Goto, Decide, storeVars, Statuses, Ended
<1>3. Local(r)'
  BY <1>1 DEF IInv, TypeOK, Lookup, Reject, Goto, Decide, Local, storeVars
<1>4. Known(r)'
  <2>1. CASE {p \in records : p.fullname = form[r].fullname} = {}
    <3>1. form[r].fullname \notin DOMAIN Legacy
      <4>1. SUFFICES ASSUME form[r].fullname \in DOMAIN Legacy PROVE FALSE
        OBVIOUS
      <4>2. LegacyRecord(form[r].fullname) \in records
        BY <4>1 DEF IInv, LegacyInv
      <4>3. LegacyRecord(form[r].fullname).fullname = form[r].fullname
        BY DEF LegacyRecord
      <4>4. QED
        BY <2>1, <4>2, <4>3
    <3>2. QED
      BY <1>1, <2>1, <3>1
         DEF IInv, TypeOK, Lookup, Reject, Goto, Decide, Known, storeVars
  <2>2. CASE {p \in records : p.fullname = form[r].fullname} # {}
    BY <1>1, <2>2, ConstantsAssumption
       DEF IInv, TypeOK, Lookup, Reject, Goto, Decide, Known, Same, SamePackage,
           storeVars
  <2>3. QED
    BY <2>1, <2>2
<1>5. Achieved(r)'
  BY <1>1 DEF IInv, TypeOK, Lookup, Reject, Goto, Decide, Achieved, Justified,
              SamePackage, storeVars
<1>6. QED
  BY <1>1, <1>2, <1>3, <1>4, <1>5, NoStoreTouched
     DEF IInv, TypeOK, Lookup, Reject, Goto, Decide

\* A record and the object of the same name have the same digest.
LEMMA RecordMatchesObject ==
    ASSUME IInv, NEW p \in records, bucket[p.fullname] # None
    PROVE  bucket[p.fullname].sha1 = p.sha1
BY ConstantsAssumption
   DEF IInv, TypeOK, Package, RecordInv, LegacyRecord, BucketInv, InBucket

LEMMA PeekPreserves ==
    ASSUME NEW r \in Requests, IInv, Peek(r) PROVE IInv'
<1>1. /\ form[r] \in Form /\ form[r].fullname \in Fullnames /\ pc[r] = "peek"
      /\ Acceptable(form[r]) /\ blobs[r] = form[r].bytes /\ status[r] = "none"
  BY ConstantsAssumption DEF IInv, Local, Peek, Form
<1>2. known[r] \in records /\ known[r] # None /\ Same(known[r], form[r])
  BY <1>1 DEF IInv, Known
<1>3. TypeOK'
  BY DEF IInv, TypeOK, Peek, Mirrored, Reject, Goto, Decide, storeVars, Statuses,
         Ended
<1>4. Local(r)'
  BY <1>1, <1>2 DEF IInv, TypeOK, Peek, Mirrored, Reject, Goto, Decide, Local,
                    storeVars
<1>5. Known(r)'
  BY <1>1, <1>2 DEF IInv, TypeOK, Peek, Mirrored, Reject, Goto, Decide, Known, Same,
                    storeVars
<1>6. Achieved(r)'
  <2>1. bucket[form[r].fullname] # None =>
            bucket[form[r].fullname].sha1 = form[r].sha1
    BY <1>2, RecordMatchesObject DEF Same
  <2>2. bucket[form[r].fullname] # None /\ ~ObjectMatches(bucket[form[r].fullname], form[r])
            => Justified(form[r])
    BY <2>1 DEF ObjectMatches, Justified
  <2>3. bucket[form[r].fullname] # None => Published(form[r])
    BY <2>1, <1>2 DEF Published, InBucket
  <2>4. Published(form[r])' <=> Published(form[r])
    BY DEF Peek, Published, InBucket, Same, storeVars
  <2>5. Justified(form[r])' <=> Justified(form[r])
    BY DEF Peek, Justified, storeVars
  <2>6. QED
    BY <1>1, <1>2, <2>2, <2>3, <2>4, <2>5
       DEF IInv, TypeOK, Peek, Mirrored, Reject, Goto, Decide, Achieved
<1>7. QED
  BY <1>1, <1>3, <1>4, <1>5, <1>6, NoStoreTouched
     DEF IInv, TypeOK, Peek, Mirrored, Reject, Goto, Decide

LEMMA StagePreserves ==
    ASSUME NEW r \in Requests, IInv, Stage(r) PROVE IInv'
<1>1. /\ form[r] \in Form /\ pc[r] = "stage" /\ Acceptable(form[r])
      /\ blobs[r] = form[r].bytes /\ status[r] = "none"
      /\ [sha1 |-> form[r].sha1, bytes |-> form[r].bytes] \in Object
  BY ConstantsAssumption DEF IInv, Local, Stage, Form, Object
<1>2. TypeOK'
  BY <1>1 DEF IInv, TypeOK, Stage, Reject, Goto, Decide, Statuses, Ended
<1>3. Local(r)'
  BY <1>1 DEF IInv, TypeOK, Stage, Reject, Goto, Decide, Local, DigestOk
<1>4. Known(r)'
  BY <1>1 DEF IInv, TypeOK, Stage, Reject, Goto, Decide, Known, Same
<1>5. Achieved(r)'
  BY <1>1 DEF IInv, TypeOK, Stage, Reject, Goto, Decide, Achieved
<1>6. StoresGrow(r) /\ \A q \in Requests : q # r => Untouched(q)
  BY DEF IInv, TypeOK, Stage, Reject, Goto, Decide, StoresGrow, Untouched
<1>7. BucketInv'
  BY DEF IInv, Stage, BucketInv
<1>8. QED
  BY <1>1, <1>2, <1>3, <1>4, <1>5, <1>6, <1>7, StepOfOne DEF Stage

LEMMA CopyPreserves ==
    ASSUME NEW r \in Requests, IInv, Copy(r) PROVE IInv'
<1> DEFINE n == form[r].fullname
<1>1. /\ form[r] \in Form /\ n \in Fullnames /\ pc[r] = "copy"
      /\ Acceptable(form[r]) /\ blobs[r] = form[r].bytes /\ status[r] = "none"
      /\ staging[r] = [sha1 |-> form[r].sha1, bytes |-> form[r].bytes]
      /\ Sha1[form[r].bytes] = form[r].sha1
      /\ staging[r] \in Object /\ staging[r] # None
  BY ConstantsAssumption DEF IInv, Local, Copy, Form, Object
<1>2. \/ bucket' = bucket
      \/ bucket[n] = None /\ bucket' = [bucket EXCEPT ![n] = staging[r]]
  BY DEF Copy
<1>3. /\ form' = form /\ known' = known /\ blobs' = blobs
      /\ staging' = staging /\ records' = records
      /\ pc' \in [Requests -> {"confirm", "unstage"} \cup {pc[q] : q \in Requests}]
      /\ pc'[r] \in {"confirm", "unstage"} /\ status'[r] \in {"none", "503"}
      /\ \A q \in Requests : q # r => pc'[q] = pc[q] /\ status'[q] = status[q]
  BY <1>1 DEF IInv, TypeOK, Copy, Goto, Decide
<1>4. \/ pc'[r] = "unstage" /\ status'[r] = "503"
      \/ status'[r] = "none" /\ bucket'[n] # None
            /\ (pc'[r] = "confirm" \/ bucket'[n].sha1 = form[r].sha1)
  BY <1>1 DEF IInv, TypeOK, Copy, Goto, Decide
<1>5. TypeOK'
  BY <1>1 DEF IInv, TypeOK, Copy, Goto, Decide, Statuses, Ended
<1>6. Local(r)'
  BY <1>1, <1>3, <1>4, ConstantsAssumption DEF IInv, Local
<1>7. Known(r)'
  BY <1>1, <1>3 DEF IInv, Known, Same
<1>8. Achieved(r)'
  BY <1>3, <1>4 DEF Achieved, InBucket
<1>9. StoresGrow(r) /\ \A q \in Requests : q # r => Untouched(q)
  BY <1>2, <1>3 DEF IInv, TypeOK, StoresGrow, Untouched
<1>10. BucketInv'
  <2>1. n \in DOMAIN Legacy => form[r].sha1 = Sha1[Legacy[n].bytes]
    <3>1. ASSUME n \in DOMAIN Legacy PROVE form[r].sha1 = Sha1[Legacy[n].bytes]
      <4>1. known[r] \in records /\ Same(known[r], form[r])
        BY <1>1, <3>1 DEF IInv, Known
      <4>2. RecordInv(known[r]) /\ known[r].fullname = n /\ known[r].sha1 = form[r].sha1
        BY <4>1 DEF IInv, Same
      <4>3. QED
        BY <4>2, <3>1 DEF RecordInv, LegacyRecord
    <3>2. QED
      BY <3>1
  <2>2. QED
    BY <1>1, <1>2, <2>1 DEF IInv, TypeOK, BucketInv
<1>11. QED
  BY <1>1, <1>3, <1>5, <1>6, <1>7, <1>8, <1>9, <1>10, StepOfOne

LEMMA ConfirmPreserves ==
    ASSUME NEW r \in Requests, IInv, Confirm(r) PROVE IInv'
<1> DEFINE n == form[r].fullname
<1>1. /\ form[r] \in Form /\ n \in Fullnames /\ pc[r] = "confirm"
      /\ Acceptable(form[r]) /\ blobs[r] = form[r].bytes /\ status[r] = "none"
      /\ Sha1[form[r].bytes] = form[r].sha1 /\ bucket[n] # None
  BY ConstantsAssumption DEF IInv, Local, Achieved, Confirm, Form
<1>2. TypeOK'
  BY DEF IInv, TypeOK, Confirm, Goto, Decide, storeVars, Statuses, Ended
<1>3. Local(r)'
  BY <1>1 DEF IInv, TypeOK, Confirm, Goto, Decide, Local, storeVars
<1>4. Known(r)'
  BY <1>1 DEF IInv, TypeOK, Confirm, Goto, Decide, Known, Same, storeVars
<1>5. Achieved(r)'
  <2>1. ~ObjectMatches(bucket[n], form[r]) => Justified(form[r])
    BY <1>1 DEF IInv, BucketInv, ObjectMatches, Justified
  <2>2. ObjectMatches(bucket[n], form[r]) => InBucket(n, form[r].sha1)
    BY <1>1 DEF ObjectMatches, InBucket
  <2>3. /\ InBucket(n, form[r].sha1) <=> InBucket(n, form[r].sha1)'
        /\ Justified(form[r]) <=> Justified(form[r])'
    BY DEF Confirm, InBucket, Justified, storeVars
  <2>4. QED
    BY <1>1, <2>1, <2>2, <2>3
       DEF IInv, TypeOK, Confirm, Goto, Decide, Achieved
<1>6. QED
  BY <1>1, <1>2, <1>3, <1>4, <1>5, NoStoreTouched
     DEF IInv, TypeOK, Confirm, Goto, Decide

LEMMA UnstagePreserves ==
    ASSUME NEW r \in Requests, IInv, Unstage(r) PROVE IInv'
<1>1. /\ form[r] \in Form /\ pc[r] = "unstage"
      /\ Acceptable(form[r]) /\ blobs[r] = form[r].bytes
      /\ status[r] \in {"none", "400", "409", "503"}
      /\ status[r] = "none" => /\ Sha1[form[r].bytes] = form[r].sha1
                               /\ InBucket(form[r].fullname, form[r].sha1)
  BY ConstantsAssumption DEF IInv, Local, Achieved, Unstage
<1>2. TypeOK'
  BY DEF IInv, TypeOK, Unstage, Mirrored, Goto, Decide, Statuses, Ended
<1>3. Local(r)'
  BY <1>1 DEF IInv, TypeOK, Unstage, Mirrored, Goto, Decide, Local
<1>4. Known(r)'
  BY <1>1 DEF IInv, TypeOK, Unstage, Mirrored, Goto, Decide, Known, Same
<1>5. Achieved(r)'
  <2>1. known[r] # None => \E p \in records : Same(p, form[r])
    BY <1>1 DEF IInv, Known
  <2>2. UNCHANGED <<form, bucket, records>>
    BY DEF Unstage
  <2>3. status[r] = "none" /\ known[r] # None => Published(form[r])'
    BY <1>1, <2>1, <2>2 DEF Published, InBucket, Same
  <2>4. status[r] = "none" => InBucket(form[r].fullname, form[r].sha1)'
    BY <1>1, <2>2 DEF InBucket
  <2>5. status[r] = "409" => Justified(form[r])'
    BY <2>2 DEF IInv, Achieved, Justified
  <2>6. QED
    BY <1>1, <2>3, <2>4, <2>5
       DEF IInv, TypeOK, Unstage, Mirrored, Goto, Decide, Achieved
<1>6. StoresGrow(r) /\ \A q \in Requests : q # r => Untouched(q)
  BY DEF IInv, TypeOK, Unstage, Mirrored, Goto, Decide, StoresGrow, Untouched
<1>7. BucketInv'
  BY DEF IInv, Unstage, BucketInv
<1>8. QED
  BY <1>1, <1>2, <1>3, <1>4, <1>5, <1>6, <1>7, StepOfOne DEF Unstage

LEMMA PutPreserves ==
    ASSUME NEW r \in Requests, IInv, Put(r) PROVE IInv'
<1>1. /\ form[r] \in Form /\ pc[r] = "put" /\ Acceptable(form[r])
      /\ blobs[r] = form[r].bytes /\ known[r] = None
      /\ Sha1[form[r].bytes] = form[r].sha1
      /\ InBucket(form[r].fullname, form[r].sha1)
      /\ form[r].fullname \notin DOMAIN Legacy
  BY ConstantsAssumption DEF IInv, Local, Known, Achieved, Put
<1>2. /\ NewRecord(r) \in Package /\ NewRecord(r).blob = r
      /\ NewRecord(r).fullname = form[r].fullname
      /\ NewRecord(r).sha1 = form[r].sha1
      /\ form[r].dependencies \in {Absent, NewRecord(r).dependencies}
  BY <1>1, ConstantsAssumption DEF NewRecord, Package, Form, BlobKeys, Acceptable
<1>3. /\ UNCHANGED <<form, known, blobs, staging, bucket>>
      /\ pc' = [pc EXCEPT ![r] = "done"]
      /\ \/ /\ records' = records \cup {NewRecord(r)}
            /\ status' = [status EXCEPT ![r] = "ok"]
         \/ /\ records' \in {records, records \cup {NewRecord(r)}}
            /\ status' = [status EXCEPT ![r] = "500"]
  BY DEF Put, Goto, Decide
<1>4. pc'[r] = "done" /\ status'[r] \in {"ok", "500"}
  BY <1>3 DEF IInv, TypeOK
<1>5. TypeOK'
  BY <1>2, <1>3 DEF IInv, TypeOK, Statuses, Ended
<1>6. Local(r)'
  BY <1>1, <1>3, <1>4 DEF IInv, Local
<1>7. Known(r)'
  BY <1>1, <1>3, <1>4 DEF Known
<1>8. Achieved(r)'
  <2>1. status'[r] = "ok" => NewRecord(r) \in records'
    BY <1>3 DEF IInv, TypeOK
  <2>2. status'[r] = "ok" => Published(form[r])'
    BY <1>1, <1>2, <1>3, <2>1 DEF Published, InBucket, Same
  <2>3. QED
    BY <1>3, <1>4, <2>2 DEF Achieved
<1>9. StoresGrow(r) /\ \A q \in Requests : q # r => Untouched(q)
  BY <1>2, <1>3 DEF IInv, TypeOK, StoresGrow, Untouched
<1>10. \A p \in records' : p \notin records => RecordInv(p)'
  <2>1. RecordInv(NewRecord(r))'
    <3>1. NewRecord(r)' = NewRecord(r)
      BY <1>3 DEF NewRecord
    <3>2. Sha1[blobs[r]]' = form[r].sha1 /\ blobs[r]' # None
      BY <1>1, <1>3, ConstantsAssumption DEF Form
    <3>3. InBucket(form[r].fullname, form[r].sha1)'
      BY <1>1, <1>3 DEF InBucket
    <3>4. QED
      BY <1>1, <1>2, <1>3, <1>4, <3>1, <3>2, <3>3 DEF RecordInv, InBucket
  <2>2. NewRecord(r)' = NewRecord(r)
    BY <1>3 DEF NewRecord
  <2>3. \A p \in records' : p \notin records => p = NewRecord(r)
    BY <1>3
  <2>4. QED
    BY <2>1, <2>2, <2>3
<1>11. BucketInv'
  BY <1>3 DEF IInv, BucketInv
<1>12. QED
  BY <1>1, <1>5, <1>6, <1>7, <1>8, <1>9, <1>10, <1>11, StepOfOne

LEMMA CleanupPreserves ==
    ASSUME NEW r \in Requests, IInv, Cleanup(r) PROVE IInv'
<1>1. pc[r] = "cleanup" /\ form[r] \in Form
  BY ConstantsAssumption DEF IInv, Local, Cleanup
<1>2. TypeOK'
  BY DEF IInv, TypeOK, Cleanup, Goto, BlobKeys, Ended
<1>3. Local(r)'
  BY <1>1 DEF IInv, TypeOK, Cleanup, Goto, Local
<1>4. Known(r)'
  BY <1>1 DEF IInv, TypeOK, Cleanup, Goto, Known
<1>5. Achieved(r)'
  BY <1>1 DEF IInv, TypeOK, Cleanup, Goto, Achieved, Published, Justified, InBucket, Same
<1>6. StoresGrow(r) /\ \A q \in Requests : q # r => Untouched(q)
  BY ConstantsAssumption
     DEF IInv, TypeOK, Cleanup, Goto, StoresGrow, Untouched, BlobKeys
<1>7. BucketInv'
  BY DEF IInv, Cleanup, BucketInv
<1>8. QED
  BY <1>1, <1>2, <1>3, <1>4, <1>5, <1>6, <1>7, StepOfOne DEF Cleanup

LEMMA CrashPreserves ==
    ASSUME NEW r \in Requests, IInv, Crash(r) PROVE IInv'
<1>1. pc[r] \notin {"idle", "done"} /\ form[r] \in Form
  BY ConstantsAssumption DEF IInv, Local, Crash, Ended
<1>2. TypeOK'
  BY DEF IInv, TypeOK, Crash, storeVars, Ended
<1>3. Local(r)'
  BY <1>1 DEF IInv, TypeOK, Crash, Local, storeVars
<1>4. Known(r)'
  BY <1>1 DEF IInv, TypeOK, Crash, Known, storeVars
<1>5. Achieved(r)'
  BY <1>1 DEF IInv, TypeOK, Crash, Achieved, Published, Justified, InBucket, Same,
              storeVars
<1>6. QED
  BY <1>1, <1>2, <1>3, <1>4, <1>5, NoStoreTouched DEF IInv, TypeOK, Crash

LEMMA ExpireStagingPreserves ==
    ASSUME NEW r \in Requests, IInv, ExpireStaging(r) PROVE IInv'
<1>1. TypeOK'
  BY DEF IInv, TypeOK, ExpireStaging, handlerVars
<1>2. Local(r)'
  BY DEF IInv, TypeOK, ExpireStaging, Local, handlerVars, Ended
<1>3. Known(r)'
  BY DEF IInv, ExpireStaging, Known, Same, handlerVars
<1>4. Achieved(r)'
  BY DEF IInv, ExpireStaging, Achieved, Published, Justified, InBucket, Same,
         handlerVars
<1>5. StoresGrow(r) /\ \A q \in Requests : q # r => Untouched(q)
  BY DEF IInv, TypeOK, ExpireStaging, StoresGrow, Untouched, handlerVars
<1>6. BucketInv'
  BY DEF IInv, ExpireStaging, BucketInv
<1>7. QED
  BY <1>1, <1>2, <1>3, <1>4, <1>5, <1>6, StepOfOne DEF ExpireStaging, handlerVars

LEMMA StepPreserves == IInv /\ [Next]_vars => IInv'
<1>1. SUFFICES ASSUME IInv, [Next]_vars PROVE IInv'
  OBVIOUS
<1>2. CASE Next
  <2>1. PICK r \in Requests : Handler(r) \/ Crash(r) \/ ExpireStaging(r)
    BY <1>2 DEF Next
  <2>2. CASE Crash(r)
    BY <1>1, <2>2, CrashPreserves
  <2>3. CASE ExpireStaging(r)
    BY <1>1, <2>3, ExpireStagingPreserves
  <2>4. CASE Handler(r)
    BY <1>1, <2>4, UploadUrlPreserves, StoreUploadPreserves, ValidatePreserves,
       LookupPreserves, PeekPreserves, StagePreserves, CopyPreserves,
       ConfirmPreserves, UnstagePreserves, PutPreserves, CleanupPreserves
       DEF Handler
  <2>5. QED
    BY <2>1, <2>2, <2>3, <2>4
<1>3. CASE UNCHANGED vars
  BY <1>1, <1>3 DEF IInv, TypeOK, Local, Known, Achieved, RecordInv, LegacyInv,
     BucketInv, Published, Justified, InBucket, Same, Acceptable, LegacyRecord, vars
<1>4. QED
  BY <1>1, <1>2, <1>3

-----------------------------------------------------------------------------
(* The theorems.                                                           *)

\* The inductive invariant holds in every reachable state.
THEOREM Invariance == Spec => []IInv
<1>1. Init => IInv
  BY InitEstablishes
<1>2. IInv /\ [Next]_vars => IInv'
  BY StepPreserves
<1>3. QED
  BY <1>1, <1>2, PTL DEF Spec

\* Every variable of the service keeps its type.
THEOREM TypeCorrect == Spec => []TypeOK
<1>1. IInv => TypeOK
  BY DEF IInv
<1>2. QED
  BY <1>1, Invariance, PTL

\* What the inductive invariant says of every reachable state.
LEMMA Promises ==
    IInv => /\ PublishedIsMirrored /\ RecordsAgreeOnSha1 /\ RecordsAreServable
            /\ OkMeansPublished /\ RefusedIsNotPublished /\ ConflictIsJustified
<1> SUFFICES ASSUME IInv
             PROVE  /\ PublishedIsMirrored /\ RecordsAgreeOnSha1 /\ RecordsAreServable
                    /\ OkMeansPublished /\ RefusedIsNotPublished /\ ConflictIsJustified
  OBVIOUS
<1>1. PublishedIsMirrored
  <2>1. SUFFICES ASSUME NEW p \in records, p.blob \in Requests
                 PROVE /\ bucket[p.fullname] # None
                       /\ bucket[p.fullname].sha1 = p.sha1
                       /\ Sha1[bucket[p.fullname].bytes] = p.sha1
    BY DEF PublishedIsMirrored
  <2>2. InBucket(p.fullname, p.sha1) /\ p.fullname \in Fullnames
    BY <2>1, ConstantsAssumption DEF IInv, RecordInv, TypeOK, Package
  <2>3. QED
    BY <2>2 DEF IInv, InBucket, BucketInv
<1>2. RecordsAgreeOnSha1
  <2>1. SUFFICES ASSUME NEW p \in records, NEW q \in records,
                        p.fullname = q.fullname
                 PROVE p.sha1 = q.sha1
    BY DEF RecordsAgreeOnSha1
  <2>2. RecordInv(p) /\ RecordInv(q)
    BY DEF IInv
  <2>3. QED
    BY <2>1, <2>2, ConstantsAssumption DEF RecordInv, LegacyRecord, InBucket
<1>3. RecordsAreServable
  <2>1. SUFFICES ASSUME NEW p \in records
                 PROVE blobs[p.blob] # None /\ Sha1[blobs[p.blob]] = p.sha1
    BY DEF RecordsAreServable
  <2>2. RecordInv(p)
    BY DEF IInv
  <2>3. CASE p.blob \in DOMAIN Legacy /\ p = LegacyRecord(p.blob)
    BY <2>3, ConstantsAssumption DEF IInv, LegacyInv, LegacyRecord
  <2>4. QED
    BY <2>2, <2>3 DEF RecordInv
<1>4. OkMeansPublished
  BY DEF IInv, Achieved, Published, InBucket, Same, OkMeansPublished
<1>5. RefusedIsNotPublished
  BY ConstantsAssumption DEF IInv, RecordInv, RefusedIsNotPublished
<1>6. ConflictIsJustified
  BY DEF IInv, Achieved, Justified, ConflictIsJustified
<1>7. QED
  BY <1>1, <1>2, <1>3, <1>4, <1>5, <1>6

\* Every record made by package_upload_blobstore has an object in the bucket
\* whose metadata and whose bytes have the record's SHA-1.
THEOREM Mirroring == Spec => []PublishedIsMirrored
BY Promises, Invariance, PTL

\* Two records of one package name never disagree on the SHA-1, although
\* nothing in Datastore prevents two records.
THEOREM OneDigestPerName == Spec => []RecordsAgreeOnSha1
BY Promises, Invariance, PTL

\* The blob of every record can be served and has the advertised SHA-1.
THEOREM Servable == Spec => []RecordsAreServable
BY Promises, Invariance, PTL

\* "ok" is only said of a package that is recorded and mirrored.
THEOREM Acknowledgement == Spec => []OkMeansPublished
BY Promises, Invariance, PTL

\* A refused request leaves no record.
THEOREM Refusal == Spec => []RefusedIsNotPublished
BY Promises, Invariance, PTL

\* 409 always has a cause in what is stored.
THEOREM Conflict == Spec => []ConflictIsJustified
BY Promises, Invariance, PTL

\* The step of every action leaves the objects under package names alone.
LEMMA StepKeepsObjects ==
    ASSUME TypeOK, [Next]_vars
    PROVE  \A n \in Fullnames : bucket[n] # None => bucket'[n] = bucket[n]
<1>1. CASE UNCHANGED bucket
  BY <1>1
<1>2. CASE \E r \in Requests : Copy(r)
  BY <1>2 DEF TypeOK, Copy
<1>3. QED
  BY <1>1, <1>2 DEF Next, Handler, UploadUrl, StoreUpload, Validate, Lookup, Peek,
     Stage, Confirm, Unstage, Put, Cleanup, Crash, ExpireStaging, storeVars, vars

\* Records are only added.
LEMMA StepKeepsRecords == [Next]_vars => records \subseteq records'
BY DEF Next, Handler, UploadUrl, StoreUpload, Validate, Lookup, Peek, Stage, Copy,
   Confirm, Unstage, Put, Cleanup, Crash, ExpireStaging, storeVars, vars

\* No step replaces or deletes an object under a package name.
THEOREM Immutability == Spec => MirrorIsImmutable
<1>1. TypeOK /\ [Next]_vars =>
         [\A n \in Fullnames : bucket[n] # None => bucket'[n] = bucket[n]]_vars
  BY StepKeepsObjects
<1>2. QED
  BY <1>1, TypeCorrect, PTL DEF Spec, MirrorIsImmutable

-----------------------------------------------------------------------------
(* The service implements ImmutableCatalog.                                *)

Digest == [n \in Fullnames |-> BoundDigest(n)]
Acked == {<<form[r].fullname, form[r].sha1>> : r \in Told}

\* A step that keeps the bucket and tells nobody "ok" is invisible.
LEMMA Invisible ==
    ASSUME NEW r \in Requests, UNCHANGED bucket,
           \A q \in Requests : q # r =>
               pc'[q] = pc[q] /\ status'[q] = status[q] /\ form'[q] = form[q],
           r \notin Told, r \notin Told'
    PROVE  Digest' = Digest /\ Acked' = Acked
<1>1. Digest' = Digest
  BY DEF Digest, BoundDigest
<1>2. Told' = Told
  BY DEF Told
<1>3. \A q \in Told : form'[q] = form[q]
  BY DEF Told
<1>4. QED
  BY <1>1, <1>2, <1>3 DEF Acked

\* A step that tells r "ok" acknowledges the digest its name is bound to.
LEMMA Visible ==
    ASSUME NEW r \in Requests, IInv, IInv', UNCHANGED <<bucket, form>>,
           \A q \in Requests : q # r => pc'[q] = pc[q] /\ status'[q] = status[q],
           r \notin Told, r \in Told'
    PROVE  \E n \in Fullnames : Catalog!Acknowledge(n)
<1>1. Digest' = Digest
  BY DEF Digest, BoundDigest
<1>2. Told' = Told \cup {r}
  BY DEF Told
<1>3. Acked' = Acked \cup {<<form[r].fullname, form[r].sha1>>}
  BY <1>2 DEF Acked
<1>4. pc'[r] = "done" /\ status'[r] = "ok"
  BY DEF Told
<1>5. form[r] \in Form /\ form[r].fullname \in Fullnames /\ form[r].sha1 \in Digests
  BY <1>4, ConstantsAssumption DEF IInv, Local, Form
<1>6. InBucket(form[r].fullname, form[r].sha1)
  BY <1>4 DEF IInv, Achieved, Published, InBucket
<1>7. Digest[form[r].fullname] = form[r].sha1
  BY <1>5, <1>6 DEF Digest, BoundDigest, InBucket
<1>8. QED
  BY <1>1, <1>3, <1>5, <1>7, ConstantsAssumption
     DEF Catalog!Acknowledge, Digest, Acked

\* The create-only copy binds a free name, or mirrors a legacy package.
LEMMA CopyBinds ==
    ASSUME NEW r \in Requests, IInv, IInv', Copy(r)
    PROVE  \/ Digest' = Digest /\ Acked' = Acked
           \/ /\ form[r].fullname \in Fullnames /\ form[r].sha1 \in Digests
              /\ Catalog!Bind(form[r].fullname, form[r].sha1)
<1> DEFINE n == form[r].fullname
<1>1. /\ form[r] \in Form /\ n \in Fullnames /\ form[r].sha1 \in Digests
      /\ staging[r] = [sha1 |-> form[r].sha1, bytes |-> form[r].bytes]
      /\ staging[r] # None
  BY ConstantsAssumption DEF IInv, Local, Copy, Form, Object
<1>2. \/ bucket' = bucket
      \/ bucket[n] = None /\ bucket' = [bucket EXCEPT ![n] = staging[r]]
  BY DEF Copy
<1>3. Acked' = Acked
  <2>1. Told' = Told
    BY DEF IInv, TypeOK, Copy, Goto, Decide, Told
  <2>2. form' = form
    BY DEF Copy
  <2>3. QED
    BY <2>1, <2>2 DEF Acked
<1>4. CASE bucket' = bucket
  BY <1>3, <1>4 DEF Digest, BoundDigest
<1>5. CASE bucket[n] = None /\ bucket' = [bucket EXCEPT ![n] = staging[r]]
  <2>1. \A m \in Fullnames : bucket'[m] = IF m = n THEN staging[r] ELSE bucket[m]
    BY <1>1, <1>5 DEF IInv, TypeOK
  <2>2. Digest' = [Digest EXCEPT ![n] = form[r].sha1]
    <3>1. \A m \in Fullnames :
             BoundDigest(m)' = IF m = n THEN form[r].sha1 ELSE BoundDigest(m)
      BY <1>1, <2>1 DEF BoundDigest
    <3>2. QED
      BY <1>1, <3>1 DEF Digest
  <2>3. CASE n \in DOMAIN Legacy
    <3>1. bucket'[n].sha1 = Sha1[Legacy[n].bytes] /\ bucket'[n].sha1 = form[r].sha1
      BY <1>1, <2>1, <2>3 DEF IInv, BucketInv
    <3>2. Digest[n] = form[r].sha1
      BY <1>1, <1>5, <2>3, <3>1 DEF Digest, BoundDigest
    <3>3. QED
      BY <1>3, <2>2, <3>2 DEF Digest
  <2>4. CASE n \notin DOMAIN Legacy
    <3>1. Digest[n] = None
      BY <1>1, <1>5, <2>4 DEF Digest, BoundDigest
    <3>2. QED
      BY <1>1, <1>3, <2>2, <3>1 DEF Catalog!Bind, Digest, Acked
  <2>5. QED
    BY <2>3, <2>4
<1>6. QED
  BY <1>2, <1>4, <1>5

LEMMA StepRefines ==
    ASSUME IInv, IInv', [Next]_vars
    PROVE  [Catalog!CatalogNext]_(Catalog!catalogVars)
<1>1. CASE UNCHANGED vars
  <2>1. Digest' = Digest /\ Acked' = Acked
    BY <1>1 DEF vars, Digest, BoundDigest, Acked, Told
  <2>2. QED
    BY <2>1 DEF Catalog!catalogVars, Digest, Acked
<1>2. ASSUME NEW r \in Requests, Handler(r) \/ Crash(r) \/ ExpireStaging(r)
      PROVE  [Catalog!CatalogNext]_(Catalog!catalogVars)
  <2>1. CASE Copy(r)
    BY <2>1, CopyBinds DEF Catalog!CatalogNext, Catalog!catalogVars, Digest, Acked
  <2>2. CASE ~Copy(r)
    <3>1. UNCHANGED bucket
      BY <1>2, <2>2 DEF Handler, UploadUrl, StoreUpload, Validate, Lookup, Peek,
         Stage, Confirm, Unstage, Put, Cleanup, Crash, ExpireStaging, storeVars
    <3>2. \A q \in Requests : q # r =>
             pc'[q] = pc[q] /\ status'[q] = status[q] /\ form'[q] = form[q]
      BY <1>2, <2>2
         DEF IInv, TypeOK, Handler, UploadUrl, StoreUpload, Validate, Lookup, Peek,
             Stage, Confirm, Unstage, Put, Cleanup, Crash, ExpireStaging, Mirrored,
             Reject, Goto, Decide, handlerVars
    <3>3. CASE ExpireStaging(r)
      <4>1. UNCHANGED <<pc, status, form>>
        BY <3>3 DEF ExpireStaging, handlerVars
      <4>2. Digest' = Digest /\ Acked' = Acked
        BY <3>1, <4>1 DEF Digest, BoundDigest, Acked, Told
      <4>3. QED
        BY <4>2 DEF Catalog!catalogVars, Digest, Acked
    <3>4. CASE ~ExpireStaging(r)
      <4>1. r \notin Told
        BY <1>2, <2>2, <3>4
           DEF Handler, UploadUrl, StoreUpload, Validate, Lookup, Peek,
               Stage, Confirm, Unstage, Put, Cleanup, Crash, Ended, Told
      <4>2. CASE r \notin Told'
        <5>1. Digest' = Digest /\ Acked' = Acked
          BY <3>1, <3>2, <4>1, <4>2, Invisible
        <5>2. QED
          BY <5>1 DEF Catalog!catalogVars, Digest, Acked
      <4>3. CASE r \in Told'
        <5>1. UNCHANGED form
          <6>1. CASE UploadUrl(r)
            BY <4>3, <6>1 DEF IInv, TypeOK, Local, UploadUrl, Goto, Decide, Told
          <6>2. CASE ~UploadUrl(r)
            BY <1>2, <2>2, <3>4, <6>2
               DEF Handler, StoreUpload, Validate, Lookup, Peek,
                   Stage, Confirm, Unstage, Put, Cleanup, Crash
          <6>3. QED
            BY <6>1, <6>2
        <5>2. \A q \in Requests : q # r => pc'[q] = pc[q] /\ status'[q] = status[q]
          BY <3>2
        <5>3. \E n \in Fullnames : Catalog!Acknowledge(n)
          BY <1>2, <3>1, <4>1, <4>3, <5>1, <5>2, Visible
        <5>4. QED
          BY <5>3 DEF Catalog!CatalogNext
      <4>4. QED
        BY <4>2, <4>3
    <3>5. QED
      BY <3>3, <3>4
  <2>3. QED
    BY <2>1, <2>2
<1>3. QED
  BY <1>1, <1>2 DEF Next

\* Names are bound once, and "ok" is said of the bound contents only.
THEOREM Refinement == Spec => ImplementsCatalog
<1>1. Init => Catalog!CatalogInit
  <2>1. SUFFICES ASSUME Init PROVE Catalog!CatalogInit
    OBVIOUS
  <2>2. IInv
    BY <2>1, InitEstablishes
  <2>3. \A n \in DOMAIN Legacy : Sha1[Legacy[n].bytes] \in Digests
    BY ConstantsAssumption
  <2>4. \A n \in Fullnames : BoundDigest(n) \in Digests \cup {None}
    BY <2>2, <2>3, ConstantsAssumption DEF IInv, TypeOK, Object, BoundDigest
  <2>5. Told = {}
    BY <2>1 DEF Init, Told
  <2>6. QED
    BY <2>4, <2>5 DEF Catalog!CatalogInit
<1>2. IInv /\ IInv' /\ [Next]_vars => [Catalog!CatalogNext]_(Catalog!catalogVars)
  BY StepRefines
<1>3. QED
  BY <1>1, <1>2, Invariance, PTL DEF Spec, ImplementsCatalog, Catalog!CatalogSpec

-----------------------------------------------------------------------------
(*****************************************************************************)
(* PUBLISHERS                                                               *)
(*****************************************************************************)

-----------------------------------------------------------------------------
(* Every step of the composition is a step of the service or none.         *)

LEMMA StepOfService ==
    ASSUME [PublicationNext]_publicationVars PROVE [Next]_vars
<1>1. CASE Service
  BY <1>1 DEF Service, Next
<1>2. CASE \E c \in Publishers : Ask(c)
  <2>1. NextRequest \in Requests /\ UploadUrl(NextRequest)
    BY <1>2 DEF Ask, NextRequest
  <2>2. QED
    BY <2>1 DEF Next, Handler
<1>3. QED
  BY <1>1, <1>2 DEF PublicationNext, publicationVars, Begin, Publisher, Post, Answer,
     CheckCatalog, CheckArchive, Fail

\* Whatever publishers do, the service behaves as PupRepository says.
THEOREM Composition == PublicationSpec => Spec
<1>1. PublicationInit => Init
  BY DEF PublicationInit
<1>2. [PublicationNext]_publicationVars => [Next]_vars
  BY StepOfService
<1>3. QED
  BY <1>1, <1>2, PTL DEF PublicationSpec, Spec

LEMMA ServiceInvariance == PublicationSpec => []IInv
BY Composition, Invariance, PTL

\* What a publisher can rely on while the service works: records and objects
\* stay, and a request that was made keeps its form.
Stable ==
    /\ records \subseteq records'
    /\ \A n \in Fullnames : bucket[n] # None => bucket'[n] = bucket[n]
    /\ \A r \in Requests : pc[r] # "idle" => pc'[r] # "idle" /\ form'[r] = form[r]

LEMMA StepIsStable ==
    ASSUME TypeOK, [Next]_vars PROVE Stable
<1>1. records \subseteq records'
  BY DEF Next, Handler, UploadUrl, StoreUpload, Validate, Lookup, Peek, Stage, Copy,
     Confirm, Unstage, Put, Cleanup, Crash, ExpireStaging, storeVars, vars
<1>2. \A n \in Fullnames : bucket[n] # None => bucket'[n] = bucket[n]
  BY StepKeepsObjects
<1>3. \A r \in Requests : pc[r] # "idle" => pc'[r] # "idle" /\ form'[r] = form[r]
  <2>1. CASE \E q \in Requests : UploadUrl(q)
    BY <2>1 DEF TypeOK, UploadUrl, Goto
  <2>2. CASE form' = form /\ \A r \in Requests : pc[r] # "idle" => pc'[r] # "idle"
    BY <2>2
  <2>3. CASE UNCHANGED vars
    BY <2>3 DEF vars
  <2>4. ASSUME NEW q \in Requests,
               \/ StoreUpload(q) \/ Validate(q) \/ Lookup(q) \/ Peek(q) \/ Stage(q)
               \/ Copy(q) \/ Confirm(q) \/ Unstage(q) \/ Put(q) \/ Cleanup(q)
               \/ Crash(q) \/ ExpireStaging(q)
        PROVE  form' = form /\ \A r \in Requests : pc[r] # "idle" => pc'[r] # "idle"
    BY <2>4 DEF TypeOK, StoreUpload, Validate, Lookup, Peek, Stage, Copy, Confirm,
       Unstage, Put, Cleanup, Crash, ExpireStaging, Goto, Reject, Mirrored,
       handlerVars
  <2>5. QED
    BY <2>1, <2>2, <2>3, <2>4 DEF Next, Handler
<1>4. QED
  BY <1>1, <1>2, <1>3 DEF Stable

-----------------------------------------------------------------------------
(* What is registered is published.                                        *)

RecordedAs(f) == \E p \in records : /\ p.fullname = f.fullname
                                  /\ p.sha1 = f.sha1
                                  /\ p.dependencies = f.dependencies

\* What the phase of a publisher says about its request and its package.
PublisherInv(c) ==
    /\ doing[c] # "off" => wave[c] # <<>>
    /\ doing[c] \in {"post", "answer"} =>
          /\ awaited[c] \in Requests
          /\ pc[awaited[c]] # "idle"
          /\ form[awaited[c]] = Current(c)
    /\ doing[c] \in {"catalog", "archive"} => Published(Current(c))
    /\ doing[c] = "archive" => RecordedAs(Current(c))

RegisteredInv == \A f \in registered : Published(f) /\ RecordedAs(f)

PInv ==
    /\ PublicationTypeOK
    /\ \A c \in Publishers : PublisherInv(c)
    /\ RegisteredInv

LEMMA FormsAreForms ==
    \A f \in Forms : f.fullname \in Fullnames
BY ConstantsAssumption DEF Form

LEMMA PublishedStays ==
    ASSUME Stable, NEW f \in Forms
    PROVE  /\ Published(f) => Published(f)'
           /\ RecordedAs(f) => RecordedAs(f)'
BY FormsAreForms DEF Stable, Published, InBucket, RecordedAs, Same

\* A publisher that does not move keeps its invariant.
LEMMA OtherPublishers ==
    ASSUME PublicationTypeOK, Stable, NEW c \in Publishers, PublisherInv(c),
           doing'[c] = doing[c], wave'[c] = wave[c], awaited'[c] = awaited[c]
    PROVE  PublisherInv(c)'
<1>1. wave[c] # <<>> => Current(c) \in Forms
  BY DEF PublicationTypeOK, Current
<1>2. Current(c)' = Current(c)
  BY DEF Current
<1>3. CASE doing[c] = "off"
  BY <1>3 DEF PublisherInv
<1>4. CASE doing[c] # "off"
  <2>1. /\ Published(Current(c)) => Published(Current(c))'
        /\ RecordedAs(Current(c)) => RecordedAs(Current(c))'
    BY <1>1, <1>2, <1>4, PublishedStays DEF PublisherInv
  <2>2. QED
    BY <1>2, <1>4, <2>1 DEF PublisherInv, Stable
<1>5. QED
  BY <1>3, <1>4

LEMMA RegisteredStays ==
    ASSUME PublicationTypeOK, Stable, RegisteredInv, registered' = registered
    PROVE  RegisteredInv'
BY PublishedStays DEF RegisteredInv, PublicationTypeOK

LEMMA PInit == PublicationInit => PInv
BY PublicationAssumption DEF PublicationInit, PInv, PublicationTypeOK, PublisherInv,
   RegisteredInv

LEMMA OffPreserves ==
    ASSUME PInv, Stable, NEW c \in Publishers, Off(c), sent' = sent,
           registered' = registered
    PROVE  PInv'
<1>1. PublicationTypeOK'
  BY PublicationAssumption DEF PInv, PublicationTypeOK, Off, Enter
<1>2. ASSUME NEW d \in Publishers PROVE PublisherInv(d)'
  <2>1. CASE d = c
    BY <2>1 DEF PInv, PublicationTypeOK, Off, Enter, PublisherInv
  <2>2. CASE d # c
    BY <2>2, OtherPublishers DEF PInv, PublicationTypeOK, Off, Enter
  <2>3. QED
    BY <2>1, <2>2
<1>3. RegisteredInv'
  BY RegisteredStays DEF PInv
<1>4. QED
  BY <1>1, <1>2, <1>3 DEF PInv

\* The steps after which the publisher is at a phase of its wave.
LEMMA MovePreserves ==
    ASSUME PInv, Stable, NEW c \in Publishers, PublicationTypeOK', PublisherInv(c)',
           \A d \in Publishers : d # c =>
               /\ doing'[d] = doing[d] /\ wave'[d] = wave[d]
               /\ awaited'[d] = awaited[d],
           registered' = registered
    PROVE  PInv'
<1>1. ASSUME NEW d \in Publishers PROVE PublisherInv(d)'
  <2>1. CASE d # c
    BY <2>1, OtherPublishers DEF PInv
  <2>2. QED
    BY <2>1
<1>2. QED
  BY <1>1, RegisteredStays DEF PInv

LEMMA BeginPreserves ==
    ASSUME PInv, Stable, NEW c \in Publishers, Begin(c)
    PROVE  PInv'
<1>1. PublicationTypeOK'
  BY PublicationAssumption DEF PInv, PublicationTypeOK, Begin, Enter
<1>2. PublisherInv(c)'
  <2>1. \A w \in Waves : w # <<>>
    BY PublicationAssumption
  <2>2. doing'[c] = "ask" /\ wave'[c] # <<>>
    BY <2>1 DEF PInv, PublicationTypeOK, Begin, Enter
  <2>3. QED
    BY <2>2 DEF PublisherInv
<1>3. QED
  BY <1>1, <1>2, MovePreserves DEF PInv, PublicationTypeOK, Begin, Enter

LEMMA AskPreserves ==
    ASSUME PInv, TypeOK, Stable, NEW c \in Publishers, Ask(c)
    PROVE  PInv'
<1>1. NextRequest \in Requests /\ pc[NextRequest] = "idle"
  BY DEF Ask, NextRequest
<1>2. PublicationTypeOK'
  BY <1>1 DEF PInv, PublicationTypeOK, Ask, Enter
<1>3. PublisherInv(c)'
  <2>1. doing'[c] = "post" /\ wave'[c] = wave[c] /\ awaited'[c] = NextRequest
    BY DEF PInv, PublicationTypeOK, Ask, Enter
  <2>2. wave[c] # <<>>
    BY DEF PInv, PublisherInv, Ask
  <2>3. pc'[NextRequest] # "idle" /\ form'[NextRequest] = Current(c)
    BY <1>1 DEF Ask, UploadUrl, Goto, TypeOK
  <2>4. QED
    BY <1>1, <2>1, <2>2, <2>3 DEF PublisherInv, Current
<1>4. QED
  BY <1>2, <1>3, MovePreserves DEF PInv, PublicationTypeOK, Ask, Enter

LEMMA PostPreserves ==
    ASSUME PInv, Stable, NEW c \in Publishers, Post(c)
    PROVE  PInv'
<1>1. PublicationTypeOK' /\ PublisherInv(c)'
  BY DEF PInv, PublicationTypeOK, Post, Enter, PublisherInv, Current, vars
<1>2. QED
  BY <1>1, MovePreserves DEF PInv, PublicationTypeOK, Post, Enter

\* "ok" of the service is what makes a package published.
LEMMA AnswerPreserves ==
    ASSUME PInv, IInv, Stable, NEW c \in Publishers, Answer(c)
    PROVE  PInv'
<1>1. Published(Current(c))
  BY DEF PInv, IInv, Answer, PublisherInv, Achieved
<1>2. Published(Current(c))'
  BY <1>1 DEF Answer, vars, Published, Same, InBucket, Current
<1>3. PublicationTypeOK'
  BY DEF PInv, PublicationTypeOK, Answer, Enter
<1>4. PublisherInv(c)'
  BY <1>2 DEF PInv, PublicationTypeOK, Answer, Enter, PublisherInv
<1>5. QED
  BY <1>3, <1>4, MovePreserves DEF PInv, PublicationTypeOK, Answer, Enter

LEMMA AgainPreserves ==
    ASSUME PInv, Stable, NEW c \in Publishers, doing[c] \in {"catalog", "archive"},
           Again(c), UNCHANGED <<vars, sent, registered>>
    PROVE  PInv'
<1>1. CASE Off(c)
  BY <1>1, OffPreserves
<1>2. CASE ~Off(c)
  <2>1. PublicationTypeOK'
    <3>1. attempt[c] + 1 \in 0..(VerifyAttempts - 1)
      BY <1>2, PublicationAssumption DEF PInv, PublicationTypeOK, Again
    <3>2. /\ attempt' = [attempt EXCEPT ![c] = attempt[c] + 1]
          /\ doing' = [doing EXCEPT ![c] = "catalog"]
          /\ wave' = wave /\ awaited' = awaited
      BY <1>2 DEF Again, Enter
    <3>3. QED
      BY <3>1, <3>2 DEF PInv, PublicationTypeOK
  <2>2. PublisherInv(c)'
    BY <1>2 DEF PInv, PublicationTypeOK, Again, Enter, PublisherInv, vars,
       Published, Same, InBucket, Current
  <2>3. QED
    BY <1>2, <2>1, <2>2, MovePreserves
       DEF PInv, PublicationTypeOK, Again, Enter
<1>3. QED
  BY <1>1, <1>2

LEMMA CheckCatalogPreserves ==
    ASSUME PInv, Stable, NEW c \in Publishers, CheckCatalog(c)
    PROVE  PInv'
<1>1. CASE Again(c)
  BY <1>1, AgainPreserves DEF CheckCatalog
<1>2. CASE ~Again(c)
  <2>1. RecordedAs(Current(c))
    BY <1>2 DEF CheckCatalog, Listed, EntryMatches, RecordedAs
  <2>2. PublicationTypeOK'
    BY <1>2 DEF PInv, PublicationTypeOK, CheckCatalog, Enter
  <2>3. PublisherInv(c)'
    BY <1>2, <2>1 DEF PInv, PublicationTypeOK, CheckCatalog, Enter, PublisherInv,
       vars, Published, Same, InBucket, Current, RecordedAs
  <2>4. QED
    BY <1>2, <2>2, <2>3, MovePreserves
       DEF PInv, PublicationTypeOK, CheckCatalog, Enter
<1>3. QED
  BY <1>1, <1>2

\* The package is registered and the publisher goes on with the next one.
LEMMA ProceedPreserves ==
    ASSUME PInv, Stable, NEW c \in Publishers, doing[c] = "archive", Proceed(c),
           registered' = registered \cup {Current(c)}, UNCHANGED <<vars, sent>>
    PROVE  PInv'
<1>1. /\ wave[c] \in Seq(Forms) /\ wave[c] # <<>>
      /\ Current(c) \in Forms /\ Tail(wave[c]) \in Seq(Forms)
  BY DEF PInv, PublicationTypeOK, PublisherInv, Current
<1>2. PublicationTypeOK'
  <2>1. 0 \in 0..(VerifyAttempts - 1)
    BY PublicationAssumption
  <2>2. registered' \subseteq Forms
    BY <1>1 DEF PInv, PublicationTypeOK
  <2>3. CASE Off(c)
    BY <2>1, <2>2, <2>3 DEF PInv, PublicationTypeOK, Off, Enter
  <2>4. CASE ~Off(c)
    BY <1>1, <2>1, <2>2, <2>4 DEF PInv, PublicationTypeOK, Proceed, Enter
  <2>5. QED
    BY <2>3, <2>4
<1>3. PublisherInv(c)'
  <2>1. CASE Off(c)
    BY <2>1 DEF PInv, PublicationTypeOK, Off, Enter, PublisherInv
  <2>2. CASE ~Off(c)
    <3>1. Len(wave[c]) # 1 /\ wave'[c] = Tail(wave[c]) /\ doing'[c] = "ask"
      BY <2>2 DEF PInv, PublicationTypeOK, Proceed, Enter
    <3>2. Len(Tail(wave[c])) # 0
      BY <1>1, <3>1
    <3>3. wave'[c] # <<>>
      <4>1. Len(<<>>) = 0
        OBVIOUS
      <4>2. QED
        BY <3>1, <3>2, <4>1
    <3>4. QED
      BY <3>1, <3>3 DEF PublisherInv
  <2>3. QED
    BY <2>1, <2>2
<1>4. ASSUME NEW d \in Publishers PROVE PublisherInv(d)'
  <2>1. CASE d # c
    BY <2>1, OtherPublishers DEF PInv, PublicationTypeOK, Proceed, Off, Enter
  <2>2. QED
    BY <1>3, <2>1
<1>5. RegisteredInv'
  <2>1. Published(Current(c)) /\ RecordedAs(Current(c))
    BY DEF PInv, PublisherInv
  <2>2. \A f \in registered' : Published(f) /\ RecordedAs(f)
    BY <2>1 DEF PInv, RegisteredInv
  <2>3. QED
    BY <2>2 DEF RegisteredInv, Published, Same, InBucket, RecordedAs, vars
<1>6. QED
  BY <1>2, <1>4, <1>5 DEF PInv

LEMMA PStep ==
    ASSUME PInv, IInv, [PublicationNext]_publicationVars
    PROVE  PInv'
<1>1. Stable
  BY StepOfService, StepIsStable DEF IInv
<1>2. CASE UNCHANGED publisherVars
  <2>1. PublicationTypeOK'
    BY <1>2 DEF PInv, PublicationTypeOK, publisherVars
  <2>2. \A c \in Publishers : PublisherInv(c)'
    BY <1>1, <1>2, OtherPublishers DEF PInv, publisherVars
  <2>3. QED
    BY <1>1, <1>2, <2>1, <2>2, RegisteredStays DEF PInv, publisherVars
<1>3. ASSUME NEW c \in Publishers, Begin(c) \/ Publisher(c) PROVE PInv'
  <2>1. CASE Begin(c)
    BY <1>1, <2>1, BeginPreserves
  <2>2. CASE Ask(c)
    BY <1>1, <2>2, AskPreserves DEF IInv
  <2>3. CASE Post(c)
    BY <1>1, <2>3, PostPreserves
  <2>4. CASE Answer(c)
    BY <1>1, <2>4, AnswerPreserves
  <2>5. CASE CheckCatalog(c)
    BY <1>1, <2>5, CheckCatalogPreserves
  <2>6. CASE CheckArchive(c)
    BY <1>1, <2>6, ProceedPreserves, AgainPreserves DEF CheckArchive
  <2>7. CASE Fail(c)
    BY <1>1, <2>7, OffPreserves DEF Fail
  <2>8. QED
    BY <1>3, <2>1, <2>2, <2>3, <2>4, <2>5, <2>6, <2>7 DEF Publisher
<1>4. QED
  BY <1>2, <1>3 DEF PublicationNext, Service, publicationVars

LEMMA PublisherInvariance == PublicationSpec => []PInv
<1>1. PublicationInit => PInv
  BY PInit
<1>2. PInv /\ IInv /\ [PublicationNext]_publicationVars => PInv'
  BY PStep
<1>3. QED
  BY <1>1, <1>2, ServiceInvariance, PTL DEF PublicationSpec

\* The variables of the publishers keep their types.
THEOREM PublicationTypeCorrect == PublicationSpec => []PublicationTypeOK
<1>1. PInv => PublicationTypeOK
  BY DEF PInv
<1>2. QED
  BY <1>1, PublisherInvariance, PTL

\* What `pup register` has reported stays true: the package is recorded, and
\* every archive the service can answer with has the digest reported.
THEOREM Registration == PublicationSpec => []RegisteredIsPublished
<1>1. PInv /\ RecordsAreServable /\ RecordsAgreeOnSha1 => RegisteredIsPublished
  <2>1. SUFFICES ASSUME PInv, RecordsAreServable, RecordsAgreeOnSha1,
                        NEW f \in registered
                 PROVE /\ RecordedAs(f)
                       /\ \A bytes \in Served(f.fullname) :
                             bytes # None /\ Sha1[bytes] = f.sha1
                       /\ InBucket(f.fullname, f.sha1)
    BY DEF RegisteredIsPublished, RecordedAs, InBucket
  <2>2. RecordedAs(f) /\ InBucket(f.fullname, f.sha1)
    BY <2>1 DEF PInv, RegisteredInv, Published
  <2>3. ASSUME NEW bytes \in Served(f.fullname)
        PROVE  bytes # None /\ Sha1[bytes] = f.sha1
    <3>1. PICK p \in records : p.fullname = f.fullname /\ bytes = blobs[p.blob]
      BY <2>3 DEF Served
    <3>2. p.sha1 = f.sha1
      BY <2>1, <2>2, <3>1 DEF RecordedAs, RecordsAgreeOnSha1
    <3>3. QED
      BY <2>1, <3>1, <3>2 DEF RecordsAreServable
  <2>4. QED
    BY <2>2, <2>3
<1>2. QED
  BY <1>1, PublisherInvariance, Composition, Servable, OneDigestPerName, PTL

-----------------------------------------------------------------------------
(* The catalogue is closed under dependencies.                             *)

HasKey(key) == \E q \in records : NameOf[q.fullname] = key

\* A form whose dependencies are recorded: those a handler works on.
Supplied(f) == \A key \in Needs(f) : HasKey(key)

\* What the rest of a wave needs is recorded or comes earlier in it.
Ordered(w) ==
    \A i \in 1..Len(w) : \A key \in Needs(w[i]) :
        HasKey(key) \/ \E j \in 1..(i - 1) : NameOf[w[j].fullname] = key

CInv ==
    /\ \A p \in records : \A key \in KeysOf[p.dependencies] : HasKey(key)
    /\ \A r \in Requests : pc[r] # "idle" => Supplied(form[r])
    /\ \A c \in Publishers : Ordered(wave[c])

LEMMA ClosedInit ==
    ASSUME WavesAreClosed, PublicationInit PROVE CInv
<1>1. ASSUME NEW n \in DOMAIN Legacy, NEW key \in KeysOf[Legacy[n].dependencies]
      PROVE  HasKey(key)
  <2>1. PICK o \in DOMAIN Legacy : NameOf[o] = key
    BY <1>1 DEF WavesAreClosed
  <2>2. LegacyRecord(o) \in records /\ LegacyRecord(o).fullname = o
    BY DEF PublicationInit, Init, LegacyRecord
  <2>3. QED
    BY <2>1, <2>2 DEF HasKey
<1>2. \A p \in records : \A key \in KeysOf[p.dependencies] : HasKey(key)
  BY <1>1 DEF PublicationInit, Init, LegacyRecord
<1>3. \A c \in Publishers : Ordered(wave[c])
  BY DEF PublicationInit, Ordered
<1>4. QED
  BY <1>2, <1>3 DEF PublicationInit, Init, CInv

\* Records are only added by Put, and name what the form of its request names.
LEMMA NewRecords ==
    ASSUME IInv, [Next]_vars
    PROVE  \A p \in records' \ records :
              \E r \in Requests :
                 pc[r] # "idle" /\ KeysOf[p.dependencies] \in {Needs(form[r]), KeysOf[NoDeps]}
<1>1. CASE \E r \in Requests : Put(r)
  <2>1. PICK r \in Requests : Put(r)
    BY <1>1
  <2>2. form[r] \in Form /\ Acceptable(form[r])
    BY <2>1, ConstantsAssumption DEF IInv, Local, Put
  <2>3. form[r].dependencies = Absent \/ form[r].dependencies \in DepLists
    BY <2>2 DEF Form, Acceptable
  <2>4. KeysOf[NewRecord(r).dependencies] \in {Needs(form[r]), KeysOf[NoDeps]}
    BY <2>3, ConstantsAssumption DEF NewRecord, Needs
  <2>5. QED
    BY <2>1, <2>4 DEF Put
<1>2. CASE ~\E r \in Requests : Put(r)
  BY <1>2 DEF Next, Handler, UploadUrl, StoreUpload, Validate, Lookup, Peek, Stage,
     Copy, Confirm, Unstage, Cleanup, Crash, ExpireStaging, storeVars, vars
<1>3. QED
  BY <1>1, <1>2

\* A publisher asks for the head of its wave.
LEMMA AskedForms ==
    ASSUME TypeOK, PInv, [PublicationNext]_publicationVars,
           NEW r \in Requests, pc[r] = "idle", pc'[r] # "idle"
    PROVE  \E c \in Publishers : 1 \in 1..Len(wave[c]) /\ form'[r] = wave[c][1]
<1>1. PICK c \in Publishers : Ask(c)
  <2>1. CASE Service
    BY <2>1 DEF TypeOK, Service, Handler, UploadUrl, StoreUpload, Validate, Lookup,
       Peek, Stage, Copy, Confirm, Unstage, Put, Cleanup, Crash, ExpireStaging, Goto,
       Reject, Mirrored, handlerVars
  <2>2. QED
    BY <2>1 DEF PublicationNext, publicationVars, vars, Begin, Publisher, Post, Answer,
       CheckCatalog, CheckArchive, Fail
<1>2. r = NextRequest /\ form'[r] = Current(c)
  BY <1>1 DEF TypeOK, Ask, UploadUrl, Goto, NextRequest
<1>3. wave[c] \in Seq(Forms) /\ wave[c] # <<>>
  BY <1>1 DEF PInv, PublicationTypeOK, PublisherInv, Ask
<1>4. 1 \in 1..Len(wave[c]) /\ Current(c) = wave[c][1]
  BY <1>3 DEF Current
<1>5. QED
  BY <1>2, <1>4

\* What the first package of a wave needs is recorded.
LEMMA NewForms ==
    ASSUME TypeOK, PInv, CInv, [PublicationNext]_publicationVars,
           NEW r \in Requests, pc[r] = "idle", pc'[r] # "idle"
    PROVE  Supplied(form'[r])
<1>1. PICK c \in Publishers : 1 \in 1..Len(wave[c]) /\ form'[r] = wave[c][1]
  BY AskedForms
<1>2. \A j \in 1..(1 - 1) : FALSE
  OBVIOUS
<1>3. QED
  BY <1>1, <1>2 DEF CInv, Ordered, Supplied

\* Once its first package is recorded, the rest of a wave is ordered.
LEMMA TailIsOrdered ==
    ASSUME NEW w \in Seq(Forms), w # <<>>, Ordered(w), HasKey(NameOf[Head(w).fullname])
    PROVE  Ordered(Tail(w))
<1>1. SUFFICES ASSUME NEW i \in 1..Len(Tail(w)), NEW key \in Needs(Tail(w)[i])
               PROVE  HasKey(key) \/ \E j \in 1..(i - 1) :
                         NameOf[Tail(w)[j].fullname] = key
  BY DEF Ordered
<1>2. /\ Len(w) \in Nat /\ Len(Tail(w)) = Len(w) - 1
      /\ \A k \in 1..Len(Tail(w)) : Tail(w)[k] = w[k + 1]
  OBVIOUS
<1>3. i + 1 \in 1..Len(w) /\ Tail(w)[i] = w[i + 1]
  BY <1>2
<1>4. HasKey(key) \/ \E j \in 1..i : NameOf[w[j].fullname] = key
  BY <1>3 DEF Ordered
<1>5. ASSUME NEW j \in 1..i, NameOf[w[j].fullname] = key
      PROVE  HasKey(key) \/ \E k \in 1..(i - 1) : NameOf[Tail(w)[k].fullname] = key
  <2>1. CASE j = 1
    BY <1>5, <2>1
  <2>2. CASE j # 1
    <3>1. j - 1 \in 1..(i - 1) /\ j - 1 \in 1..Len(Tail(w))
      BY <1>2, <2>2
    <3>2. Tail(w)[j - 1] = w[j]
      BY <1>2, <3>1
    <3>3. QED
      BY <1>5, <3>1, <3>2
  <2>3. QED
    BY <2>1, <2>2
<1>6. QED
  BY <1>4, <1>5

LEMMA WavesStayOrdered ==
    ASSUME PInv, CInv, WavesAreClosed, [PublicationNext]_publicationVars, NEW c \in Publishers
    PROVE  Ordered(wave'[c])
<1>1. CASE \E d \in Publishers : Begin(d)
  <2>1. \A w \in Waves : Ordered(w)
    BY DEF WavesAreClosed, Ordered
  <2>2. QED
    BY <1>1, <2>1 DEF PInv, PublicationTypeOK, CInv, Begin
<1>2. CASE \E d \in Publishers : Off(d)
  <2>1. Ordered(<<>>)
    BY DEF Ordered
  <2>2. QED
    BY <1>2, <2>1 DEF PInv, PublicationTypeOK, CInv, Off
<1>3. ASSUME NEW d \in Publishers, doing[d] = "archive",
             wave' = [wave EXCEPT ![d] = Tail(@)]
      PROVE  Ordered(wave'[c])
  <2>1. HasKey(NameOf[Current(d).fullname])
    BY <1>3 DEF PInv, PublisherInv, RecordedAs, HasKey
  <2>2. wave[d] \in Seq(Forms) /\ wave[d] # <<>> /\ Ordered(wave[d])
    BY <1>3 DEF PInv, PublicationTypeOK, PublisherInv, CInv
  <2>3. Ordered(Tail(wave[d]))
    BY <2>1, <2>2, TailIsOrdered DEF Current
  <2>4. QED
    BY <1>3, <2>3 DEF PInv, PublicationTypeOK, CInv
<1>4. CASE UNCHANGED wave
  BY <1>4 DEF CInv
<1>5. QED
  BY <1>1, <1>2, <1>3, <1>4 DEF PublicationNext, Service, publisherVars, publicationVars,
     Publisher, Ask, Post, Answer, CheckCatalog, CheckArchive, Fail, Again, Proceed

LEMMA ClosedStep ==
    ASSUME IInv, PInv, CInv, WavesAreClosed, [PublicationNext]_publicationVars
    PROVE  CInv'
<1>1. [Next]_vars /\ Stable
  BY StepOfService, StepIsStable DEF IInv
<1>2. \A key : HasKey(key) => HasKey(key)'
  BY <1>1 DEF Stable, HasKey
<1>3. ASSUME NEW p \in records', NEW key \in KeysOf[p.dependencies]
      PROVE  HasKey(key)'
  <2>1. CASE p \in records
    BY <1>2, <1>3, <2>1 DEF CInv
  <2>2. CASE p \notin records
    <3>1. PICK r \in Requests : /\ pc[r] # "idle"
                                /\ KeysOf[p.dependencies] \in {Needs(form[r]), KeysOf[NoDeps]}
      BY <1>1, <2>2, NewRecords
    <3>2. key \in Needs(form[r])
      BY <1>3, <3>1 DEF WavesAreClosed
    <3>3. QED
      BY <1>2, <3>1, <3>2 DEF CInv, Supplied
  <2>3. QED
    BY <2>1, <2>2
<1>4. ASSUME NEW r \in Requests, pc'[r] # "idle"
      PROVE  Supplied(form[r])'
  <2>1. Supplied(form'[r])
    <3>1. CASE pc[r] = "idle"
      BY <1>4, <3>1, NewForms DEF IInv
    <3>2. CASE pc[r] # "idle"
      BY <1>1, <3>2 DEF CInv, Stable
    <3>3. QED
      BY <3>1, <3>2
  <2>2. QED
    BY <1>2, <2>1 DEF Supplied, Needs
<1>5. ASSUME NEW c \in Publishers PROVE Ordered(wave[c])'
  <2>1. Ordered(wave'[c])
    BY WavesStayOrdered
  <2>2. QED
    BY <1>2, <2>1 DEF Ordered, Needs
<1>6. QED
  BY <1>3, <1>4, <1>5 DEF CInv

\* At no moment does the catalogue list a package without what it depends on,
\* if the waves and the catalogue they started from have what they need.
THEOREM ClosedCatalogue == PublicationSpec => []CatalogueIsClosed
<1>1. PublicationInit => (WavesAreClosed => CInv)
  BY ClosedInit
<1>2. (WavesAreClosed => CInv) /\ IInv /\ PInv /\ [PublicationNext]_publicationVars
         => (WavesAreClosed => CInv)'
  BY ClosedStep DEF WavesAreClosed
<1>3. (WavesAreClosed => CInv) => CatalogueIsClosed
  BY DEF CInv, HasKey, CatalogueIsClosed
<1>4. QED
  BY <1>1, <1>2, <1>3, ServiceInvariance, PublisherInvariance, PTL DEF PublicationSpec

-----------------------------------------------------------------------------
(* Retries are not refused.                                                *)

FromWave(f) == \E w \in Waves : \E i \in 1..Len(w) : f = w[i]

\* Publishers register, and handlers work on, what is in the waves.
GInv ==
    /\ \A c \in Publishers : \A i \in 1..Len(wave[c]) : FromWave(wave[c][i])
    /\ \A r \in Requests : pc[r] # "idle" => FromWave(form[r])

LEMMA GenuineWaves ==
    ASSUME PInv, GInv, [PublicationNext]_publicationVars, NEW c \in Publishers
    PROVE  \A i \in 1..Len(wave'[c]) : FromWave(wave'[c][i])
<1>1. CASE \E d \in Publishers : Begin(d)
  <2>1. \A w \in Waves : \A i \in 1..Len(w) : FromWave(w[i])
    BY DEF FromWave
  <2>2. QED
    BY <1>1, <2>1 DEF PInv, PublicationTypeOK, GInv, Begin
<1>2. CASE \E d \in Publishers : Off(d)
  <2>1. \A i \in 1..Len(<<>>) : FALSE
    OBVIOUS
  <2>2. QED
    BY <1>2, <2>1 DEF PInv, PublicationTypeOK, GInv, Off
<1>3. ASSUME NEW d \in Publishers, doing[d] = "archive",
             wave' = [wave EXCEPT ![d] = Tail(@)]
      PROVE  \A i \in 1..Len(wave'[c]) : FromWave(wave'[c][i])
  <2>1. wave[d] \in Seq(Forms) /\ wave[d] # <<>>
    BY <1>3 DEF PInv, PublicationTypeOK, PublisherInv
  <2>2. \A i \in 1..Len(Tail(wave[d])) :
           i + 1 \in 1..Len(wave[d]) /\ Tail(wave[d])[i] = wave[d][i + 1]
    BY <2>1
  <2>3. \A i \in 1..Len(Tail(wave[d])) : FromWave(Tail(wave[d])[i])
    BY <2>2 DEF GInv
  <2>4. QED
    BY <1>3, <2>3 DEF PInv, PublicationTypeOK, GInv
<1>4. CASE UNCHANGED wave
  BY <1>4 DEF GInv
<1>5. QED
  BY <1>1, <1>2, <1>3, <1>4 DEF PublicationNext, Service, publisherVars, publicationVars,
     Publisher, Ask, Post, Answer, CheckCatalog, CheckArchive, Fail, Again, Proceed

LEMMA GenuineStep ==
    ASSUME IInv, PInv, GInv, [PublicationNext]_publicationVars
    PROVE  GInv'
<1>1. Stable
  BY StepOfService, StepIsStable DEF IInv
<1>2. ASSUME NEW r \in Requests, pc'[r] # "idle" PROVE FromWave(form'[r])
  BY <1>1, <1>2, AskedForms DEF IInv, GInv, Stable
<1>3. QED
  BY <1>2, GenuineWaves DEF GInv

Busy == {"validate", "lookup", "peek", "stage", "copy", "confirm", "unstage", "put",
         "cleanup"}

\* Handlers work on forms that were posted; what is recorded or in the bucket
\* comes from one of them, if it is not a legacy package; no form is refused
\* for itself.
SInv ==
    /\ \A r \in Requests : pc[r] \in Busy => r \in sent
    /\ \A r \in sent : r \in Requests /\ pc[r] # "idle"
    /\ \A p \in records : p.blob \in Requests => p.blob \in sent /\ p = NewRecord(p.blob)
    /\ \A n \in Fullnames : bucket[n] # None =>
          \/ n \in DOMAIN Legacy /\ bucket[n].bytes = Legacy[n].bytes
          \/ \E q \in sent : form[q].fullname = n /\ form[q].bytes = bucket[n].bytes
    /\ \A r \in Requests : status[r] # "400"

LEMMA SentInit == PublicationInit => SInv
<1>1. SUFFICES ASSUME PublicationInit PROVE SInv
  OBVIOUS
<1>2. \A p \in records : p.blob \notin Requests
  <2>1. \A n \in DOMAIN Legacy : n \notin Requests /\ LegacyRecord(n).blob = n
    BY ConstantsAssumption DEF LegacyRecord
  <2>2. records = {LegacyRecord(n) : n \in DOMAIN Legacy}
    BY <1>1 DEF PublicationInit, Init
  <2>3. QED
    BY <2>1, <2>2
<1>3. \A n \in Fullnames : bucket[n] # None =>
         n \in DOMAIN Legacy /\ bucket[n].bytes = Legacy[n].bytes
  <2>1. PICK mirrored \in SUBSET DOMAIN Legacy :
           bucket = [n \in Fullnames |->
                       IF n \in mirrored
                       THEN [sha1 |-> Sha1[Legacy[n].bytes], bytes |-> Legacy[n].bytes]
                       ELSE None]
    BY <1>1 DEF PublicationInit, Init
  <2>2. QED
    BY <2>1
<1>4. sent = {} /\ \A q \in Requests : pc[q] = "idle" /\ status[q] = "none"
  BY <1>1 DEF PublicationInit, Init
<1>5. QED
  BY <1>2, <1>3, <1>4 DEF SInv, Busy

\* A step of a handler whose form was posted and is in order.
LEMMA SentHandler ==
    ASSUME IInv, SInv, NEW r \in Requests, Handler(r), pc[r] # "idle",
           pc[r] = "upload" => r \in sent,
           Acceptable(form[r]), Sha1[form[r].bytes] = form[r].sha1,
           sent' = sent
    PROVE  SInv'
<1>1. /\ pc[r] \in {"upload"} \cup Busy /\ r \in sent /\ form' = form
      /\ pc'[r] # "idle" /\ \A q \in Requests : q # r => pc'[q] = pc[q]
  BY DEF IInv, TypeOK, SInv, Busy, Ended, Handler, UploadUrl, StoreUpload, Validate,
     Lookup, Peek, Stage, Copy, Confirm, Unstage, Put, Cleanup, Goto, Reject, Mirrored
<1>2. \A q \in Requests : status'[q] # "400"
  <2>1. pc[r] = "stage" => DigestOk(blobs[r], form[r])
    BY DEF IInv, Local, DigestOk
  <2>2. form[r].files # "unreadable"
    BY DEF Acceptable
  <2>3. QED
    BY <2>1, <2>2 DEF IInv, TypeOK, SInv, Handler, UploadUrl, StoreUpload, Validate,
       Lookup, Peek, Stage, Copy, Confirm, Unstage, Put, Cleanup, Goto, Reject,
       Mirrored, Decide
<1>3. \A p \in records' : p.blob \in Requests => p.blob \in sent /\ p = NewRecord(p.blob)
  <2>1. CASE Put(r)
    <3>1. NewRecord(r).blob = r
      BY DEF NewRecord
    <3>2. records' \subseteq records \cup {NewRecord(r)}
      BY <2>1 DEF Put
    <3>3. QED
      BY <1>1, <3>1, <3>2 DEF SInv
  <2>2. CASE records' = records
    BY <2>2 DEF SInv
  <2>3. QED
    BY <2>1, <2>2 DEF Handler, UploadUrl, StoreUpload, Validate, Lookup, Peek, Stage,
       Copy, Confirm, Unstage, Cleanup, storeVars
<1>4. \A n \in Fullnames : bucket'[n] # None =>
          \/ n \in DOMAIN Legacy /\ bucket'[n].bytes = Legacy[n].bytes
          \/ \E q \in sent : form[q].fullname = n /\ form[q].bytes = bucket'[n].bytes
  <2>1. CASE Copy(r)
    <3>1. staging[r].bytes = form[r].bytes
      <4>1. staging[r] = [sha1 |-> form[r].sha1, bytes |-> form[r].bytes]
        BY <2>1 DEF IInv, Local, Copy
      <4>2. QED
        BY <4>1
    <3>2. \/ bucket' = bucket
          \/ bucket' = [bucket EXCEPT ![form[r].fullname] = staging[r]]
      BY <2>1 DEF Copy
    <3>3. QED
      BY <1>1, <3>1, <3>2 DEF SInv, IInv, TypeOK
  <2>2. CASE bucket' = bucket
    BY <2>2 DEF SInv
  <2>3. QED
    BY <2>1, <2>2 DEF Handler, UploadUrl, StoreUpload, Validate, Lookup, Peek, Stage,
       Confirm, Unstage, Put, Cleanup, storeVars
<1>5. \A q : NewRecord(q)' = NewRecord(q)
  BY <1>1 DEF NewRecord
<1>6. QED
  BY <1>1, <1>2, <1>3, <1>4, <1>5 DEF SInv

LEMMA SentStep ==
    ASSUME WavesAreGenuine, IInv, PInv, GInv, SInv, [PublicationNext]_publicationVars
    PROVE  SInv'
<1>1. ASSUME NEW r \in Requests, pc[r] # "idle", pc[r] = "upload" => r \in sent,
             Handler(r), UNCHANGED publisherVars
      PROVE  SInv'
  <2>1. Acceptable(form[r]) /\ Sha1[form[r].bytes] = form[r].sha1
    BY <1>1 DEF GInv, FromWave, WavesAreGenuine
  <2>2. QED
    BY <1>1, <2>1, SentHandler DEF publisherVars
<1>2. ASSUME NEW r \in Requests, Crash(r) \/ ExpireStaging(r), UNCHANGED publisherVars
      PROVE  SInv'
  <2>1. /\ UNCHANGED <<form, status, records, bucket, sent>>
        /\ \A q \in Requests : pc'[q] = pc[q] \/ (pc'[q] = "dead" /\ pc[q] # "idle")
    BY <1>2 DEF IInv, TypeOK, Crash, ExpireStaging, storeVars, handlerVars, publisherVars
  <2>2. QED
    BY <2>1 DEF SInv, NewRecord, Busy
<1>3. ASSUME NEW c \in Publishers, Ask(c) PROVE SInv'
  <2> DEFINE r == NextRequest
  <2>1. /\ r \in Requests /\ pc[r] = "idle" /\ UNCHANGED <<records, bucket, sent>>
        /\ pc'[r] \in {"upload", "done"} /\ status'[r] \in {status[r], "403"}
        /\ \A q \in Requests : q # r => /\ pc'[q] = pc[q] /\ form'[q] = form[q]
                                        /\ status'[q] = status[q]
    BY <1>3 DEF IInv, TypeOK, Ask, NextRequest, UploadUrl, Goto, Decide, storeVars
  <2>2. r \notin sent
    BY <2>1 DEF SInv
  <2>3. \A q \in sent : q \in Requests /\ form'[q] = form[q] /\ pc'[q] = pc[q]
    BY <2>1, <2>2 DEF SInv
  <2>4. \A q \in sent : NewRecord(q)' = NewRecord(q)
    BY <2>3 DEF NewRecord
  <2>5. \A q \in Requests : status'[q] # "400"
    BY <2>1 DEF SInv
  <2> HIDE DEF r
  <2>6. \A q \in Requests : pc'[q] \in Busy => q \in sent
    BY <2>1 DEF SInv, Busy
  <2>7. QED
    BY <2>1, <2>3, <2>4, <2>5, <2>6 DEF SInv
<1>4. ASSUME NEW c \in Publishers, Post(c) PROVE SInv'
  <2>1. /\ UNCHANGED vars /\ sent' = sent \cup {awaited[c]}
        /\ awaited[c] \in Requests /\ pc[awaited[c]] # "idle"
    BY <1>4 DEF Post, PInv, PublisherInv
  <2>2. QED
    BY <2>1 DEF SInv, vars, NewRecord
<1>5. CASE UNCHANGED vars /\ UNCHANGED sent
  BY <1>5 DEF SInv, vars, NewRecord
<1>6. QED
  BY <1>1, <1>2, <1>3, <1>4, <1>5 DEF PublicationNext, Service, Publisher, Begin, Answer,
     CheckCatalog, CheckArchive, Fail, publicationVars, publisherVars

\* What handlers and publishers that were killed leave behind refuses nobody:
\* a form is refused only if one with other contents was posted for its name.
THEOREM Retries == PublicationSpec => []RetriesAreNotRefused
<1>1. PublicationInit => GInv /\ SInv
  <2>1. \A i \in 1..Len(<<>>) : FALSE
    OBVIOUS
  <2>2. PublicationInit => GInv
    BY <2>1 DEF PublicationInit, Init, GInv
  <2>3. QED
    BY <2>2, SentInit
<1>2. GInv /\ IInv /\ PInv /\ [PublicationNext]_publicationVars => GInv'
  BY GenuineStep
<1>3. (WavesAreGenuine => SInv) /\ GInv /\ IInv /\ PInv /\ [PublicationNext]_publicationVars
         => (WavesAreGenuine => SInv)'
  BY SentStep DEF WavesAreGenuine, Acceptable
<1>4. GInv /\ IInv /\ (WavesAreGenuine => SInv) => RetriesAreNotRefused
  <2>1. SUFFICES ASSUME WavesAreGenuine, GInv, IInv, SInv, NEW r \in Requests,
                        status[r] = "409"
                 PROVE  \E q \in sent : /\ form[q].fullname = form[r].fullname
                                        /\ form[q] # form[r]
    BY DEF RetriesAreNotRefused, SInv
  <2>2. pc[r] # "idle" /\ Justified(form[r])
    BY <2>1 DEF IInv, Achieved
  <2> DEFINE f == form[r]
             n == f.fullname
  <2>3. /\ f \in Forms /\ n \in Fullnames
        /\ n \in DOMAIN Legacy => /\ f.bytes = Legacy[n].bytes
                                  /\ f.sha1 = Sha1[Legacy[n].bytes]
                                  /\ f.dependencies \in {Absent, Legacy[n].dependencies}
    <3>1. f \in Forms /\ n \in Fullnames
      BY <2>1, <2>2, FormsAreForms DEF IInv, Local
    <3>2. PICK w \in Waves : \E i \in 1..Len(w) : f = w[i]
      BY <2>1, <2>2 DEF GInv, FromWave
    <3>3. PICK i \in 1..Len(w) : f = w[i]
      BY <3>2
    <3>4. /\ Sha1[f.bytes] = f.sha1
          /\ n \in DOMAIN Legacy => /\ f.bytes = Legacy[n].bytes
                                    /\ f.dependencies \in {Absent, Legacy[n].dependencies}
      BY <2>1, <3>3 DEF WavesAreGenuine
    <3>5. QED
      BY <3>1, <3>4
  <2>4. ASSUME NEW p \in records, p.fullname = n,
               p.sha1 # f.sha1 \/ f.dependencies \notin {Absent, p.dependencies}
        PROVE  \E q \in sent : form[q].fullname = n /\ form[q] # f
    <3>1. p.blob \in Requests
      BY <2>1, <2>3, <2>4 DEF IInv, RecordInv, LegacyRecord
    <3>2. p.blob \in sent /\ p = NewRecord(p.blob)
      BY <2>1, <3>1 DEF SInv
    <3>3. /\ form[p.blob].fullname = n /\ p.sha1 = form[p.blob].sha1
          /\ p.dependencies = IF form[p.blob].dependencies = Absent
                              THEN NoDeps ELSE form[p.blob].dependencies
      BY <2>4, <3>2 DEF NewRecord
    <3>4. QED
      BY <2>4, <3>2, <3>3
  <2>5. CASE bucket[n] # None /\ bucket[n].bytes # f.bytes
    BY <2>1, <2>3, <2>5 DEF SInv
  <2>6. QED
    BY <2>2, <2>4, <2>5 DEF Justified
<1>5. QED
  BY <1>1, <1>2, <1>3, <1>4, ServiceInvariance, PublisherInvariance, PTL
     DEF PublicationSpec

-----------------------------------------------------------------------------
(*****************************************************************************)
(* THE MIGRATION                                                            *)
(*****************************************************************************)

-----------------------------------------------------------------------------
(* The inductive invariant.                                                *)

Phases == {"off", "packages", "infos", "work", "final infos", "final packages",
           "complete", "failed"}
Good == {"uploaded", "verified-existing", "would-upload"}
Fetched == {"look", "begin", "finish", "confirm-uploaded", "confirm-existing"}

MigrationTypeOK ==
    /\ phase \in Phases /\ apply \in BOOLEAN /\ runs \in Nat
    /\ unread \subseteq BlobKeys
    /\ packages \subseteq records /\ present \subseteq records
    /\ infos \subseteq BlobKeys \X Nat
    /\ initial \in Manifest \cup {None}
    /\ step \in [Fullnames -> {"none", "queued"} \cup Running \cup Results]
    /\ downloaded \in [Fullnames -> Contents \cup {None}]
    /\ session \in [Fullnames -> Contents \cup {None}]

\* A record of that name vouches for the digest of these bytes.
Recorded(n, bytes) ==
    /\ bytes \in Contents
    /\ \E p \in records : p.fullname = n /\ p.sha1 = Sha1[bytes]

\* What a worker or an upload session holds is the archive of a record.
HeldInv ==
    \A n \in Fullnames :
        /\ step[n] \in Fetched => Recorded(n, downloaded[n])
        /\ session[n] # None => Recorded(n, session[n])

\* The manifest says of its artifacts what the records say.
InitialInv ==
    phase = "work" =>
        /\ \A a \in initial.artifacts :
              \E p \in records : p.fullname = a.fullname /\ p.sha1 = a.sha1
        /\ \A n \in Fullnames : step[n] # "none" =>
              \E a \in initial.artifacts : a.fullname = n

\* No legacy package is overlooked: it is read, it gets a worker, and the
\* worker has a result.
LegacyInPass ==
    \A n \in DOMAIN Legacy :
        /\ phase = "packages" => n \in unread \/ LegacyRecord(n) \in packages
        /\ phase = "infos" => LegacyRecord(n) \in packages
        /\ phase \in {"work", "final infos", "final packages", "complete"}
              => step[n] # "none"

ResultInv ==
    \A n \in Fullnames :
        /\ step[n] \in {"uploaded", "verified-existing"} => bucket[n] # None
        /\ step[n] = "would-upload" => ~apply
        /\ phase \in {"final infos", "final packages", "complete"}
              => step[n] \in {"none"} \cup Good

\* The last query returns what was there before it began.
FinalInv ==
    phase = "final packages" => \A p \in present : p.blob \in unread \/ p \in packages

MigrationInv ==
    /\ MigrationTypeOK /\ HeldInv /\ InitialInv /\ LegacyInPass /\ ResultInv
    /\ FinalInv /\ ManifestIsCatalogue /\ RerunsAgree

-----------------------------------------------------------------------------
(* The stores.                                                             *)

\* The stores of the repository only grow.
Grows ==
    /\ records \subseteq records'
    /\ \A n \in Fullnames : bucket[n] # None => bucket'[n] # None

\* What only the stores' growth touches stays true.
LEMMA GrowthPreserves ==
    ASSUME MigrationInv, Grows, UNCHANGED migrationVars
    PROVE  MigrationInv'
<1>1. /\ UNCHANGED <<phase, apply, unread, packages, infos, initial, present, runs>>
      /\ UNCHANGED <<step, downloaded, session>>
  BY DEF migrationVars, mainVars, workerVars
<1>2. MigrationTypeOK'
  BY <1>1 DEF MigrationInv, MigrationTypeOK, Grows
<1>3. HeldInv'
  BY <1>1 DEF MigrationInv, HeldInv, Recorded, Grows
<1>4. InitialInv'
  BY <1>1 DEF MigrationInv, InitialInv, Grows
<1>5. LegacyInPass'
  BY <1>1 DEF MigrationInv, LegacyInPass, LegacyRecord
<1>6. ResultInv'
  BY <1>1 DEF MigrationInv, ResultInv, Grows
<1>7. FinalInv' /\ ManifestIsCatalogue' /\ RerunsAgree'
  BY <1>1 DEF MigrationInv, FinalInv, ManifestIsCatalogue, RerunsAgree
<1> QED
  BY <1>2, <1>3, <1>4, <1>5, <1>6, <1>7 DEF MigrationInv

\* An object that an upload session creates is one the handlers may meet: it
\* is the archive of a legacy record, for every other record has an object.
LEMMA CreateObjectKeeps ==
    ASSUME IInv, MigrationInv, NEW n \in Fullnames, CreateObject(n)
    PROVE  IInv' /\ Grows
<1> DEFINE created == [sha1 |-> Sha1[session[n]], bytes |-> session[n]]
<1>1. /\ UNCHANGED <<pc, form, known, status, blobs, staging, records>>
      /\ bucket' = [bucket EXCEPT ![n] = created]
      /\ bucket[n] = None /\ session[n] # None
  BY DEF CreateObject
<1>2. PICK p \in records : p.fullname = n /\ p.sha1 = Sha1[session[n]]
  BY <1>1 DEF MigrationInv, HeldInv, Recorded
<1>3. session[n] \in Contents
  BY <1>1 DEF MigrationInv, HeldInv, Recorded
<1>4. n \in DOMAIN Legacy => Sha1[session[n]] = Sha1[Legacy[n].bytes]
  <2>1. RecordInv(p)
    BY DEF IInv
  <2> QED
    BY <1>1, <1>2, <2>1 DEF RecordInv, InBucket, LegacyRecord
<1>5. created \in Object /\ created # None
  BY <1>3, ConstantsAssumption DEF Object
<1>6. /\ \A m \in Fullnames \ {n} : bucket'[m] = bucket[m]
      /\ bucket'[n] = created /\ bucket' \in [Fullnames -> Object \cup {None}]
  BY <1>1, <1>5 DEF IInv, TypeOK
<1>7. TypeOK'
  BY <1>1, <1>6 DEF IInv, TypeOK
<1>8. \A q \in Requests : StoresGrow(q) /\ Untouched(q)
  BY <1>1, <1>6 DEF StoresGrow, Untouched
<1>9. \A q \in Requests : (Local(q) /\ Known(q) /\ Achieved(q))'
  BY <1>8, OtherHandlers DEF IInv
<1>10. \A q \in records' : RecordInv(q)'
  <2>1. ASSUME NEW q \in records PROVE RecordInv(q)'
    <3>1. RecordInv(q) /\ q.fullname \in Fullnames
      BY DEF IInv, TypeOK, Package
    <3> QED
      BY <1>1, <1>6, <3>1 DEF RecordInv, InBucket, LegacyRecord
  <2> QED
    BY <1>1, <2>1
<1>11. LegacyInv'
  BY <1>1 DEF IInv, LegacyInv, LegacyRecord
<1>12. BucketInv'
  <2>1. created.sha1 = Sha1[session[n]] /\ created.bytes = session[n]
    OBVIOUS
  <2> HIDE DEF created
  <2> QED
    BY <1>4, <1>6, <2>1 DEF IInv, BucketInv
<1>13. Grows
  BY <1>1, <1>5, <1>6 DEF Grows
<1> QED
  BY <1>7, <1>9, <1>10, <1>11, <1>12, <1>13 DEF IInv

\* The upload handlers do not know that there is a migration.
LEMMA HandlersKeep ==
    ASSUME IInv, [Next]_vars
    PROVE  IInv' /\ Grows
<1>1. IInv'
  BY StepPreserves
<1>2. \A n \in Fullnames : bucket[n] # None => bucket'[n] # None
  BY StepKeepsObjects DEF IInv
<1> QED
  BY <1>1, <1>2, StepKeepsRecords DEF Grows

-----------------------------------------------------------------------------
(* The steps of main.                                                      *)

LEMMA StartKeeps == MigrationInv /\ Start => MigrationInv'
<1> SUFFICES ASSUME MigrationInv, Start PROVE MigrationInv'
  OBVIOUS
<1>1. /\ phase' = "packages" /\ apply' \in BOOLEAN /\ runs' = runs + 1
      /\ unread' = BlobKeys /\ packages' = {} /\ infos' = {} /\ initial' = None
      /\ present' = {} /\ step' = [n \in Fullnames |-> "none"]
      /\ downloaded' = [n \in Fullnames |-> None]
      /\ UNCHANGED <<session, records, bucket>>
  BY DEF Start, vars
<1>2. \A n \in Fullnames : step'[n] = "none"
  BY <1>1
<1>3. MigrationTypeOK'
  <2>1. /\ step' \in [Fullnames -> {"none", "queued"} \cup Running \cup Results]
        /\ downloaded' \in [Fullnames -> Contents \cup {None}]
    BY <1>1
  <2>2. runs \in Nat /\ session \in [Fullnames -> Contents \cup {None}]
    BY DEF MigrationInv, MigrationTypeOK
  <2> QED
    BY <1>1, <2>1, <2>2 DEF MigrationTypeOK, Phases
<1>4. HeldInv'
  BY <1>1, <1>2 DEF MigrationInv, HeldInv, Recorded, Fetched
<1>5. LegacyInPass'
  BY <1>1, ConstantsAssumption DEF LegacyInPass, BlobKeys
<1>6. InitialInv' /\ ResultInv' /\ FinalInv' /\ ManifestIsCatalogue' /\ RerunsAgree'
  BY <1>1, <1>2 DEF InitialInv, ResultInv, FinalInv, ManifestIsCatalogue, RerunsAgree
<1> QED
  BY <1>3, <1>4, <1>5, <1>6 DEF MigrationInv

LEMMA ReadPackageKeeps == IInv /\ MigrationInv /\ ReadPackage => MigrationInv'
<1> SUFFICES ASSUME IInv, MigrationInv, ReadPackage PROVE MigrationInv'
  OBVIOUS
<1>1. PICK k \in unread : /\ unread' = unread \ {k}
                          /\ packages' = packages \cup {p \in records : p.blob = k}
  BY DEF ReadPackage
<1>2. /\ phase \in {"packages", "final packages"}
      /\ UNCHANGED <<phase, apply, infos, initial, present, runs, step, downloaded, session>>
      /\ UNCHANGED <<records, bucket>>
  BY DEF ReadPackage, vars, workerVars
<1>3. MigrationTypeOK'
  BY <1>1, <1>2 DEF MigrationInv, MigrationTypeOK
<1>4. HeldInv' /\ ResultInv' /\ RerunsAgree' /\ ManifestIsCatalogue' /\ InitialInv'
  BY <1>2 DEF MigrationInv, HeldInv, Recorded, ResultInv, RerunsAgree,
     ManifestIsCatalogue, InitialInv
<1>5. LegacyInPass'
  <2>1. \A n \in DOMAIN Legacy : LegacyRecord(n) \in records /\ LegacyRecord(n).blob = n
    BY DEF IInv, LegacyInv, LegacyRecord
  <2>2. \A n \in DOMAIN Legacy : LegacyRecord(n)' = LegacyRecord(n)
    BY DEF LegacyRecord
  <2>3. ASSUME NEW n \in DOMAIN Legacy, phase = "packages"
        PROVE  n \in unread' \/ LegacyRecord(n) \in packages'
    BY <1>1, <2>1, <2>3 DEF MigrationInv, LegacyInPass
  <2> QED
    BY <1>2, <2>2, <2>3, ConstantsAssumption DEF MigrationInv, LegacyInPass
<1>6. FinalInv'
  BY <1>1, <1>2 DEF MigrationInv, MigrationTypeOK, FinalInv
<1> QED
  BY <1>3, <1>4, <1>5, <1>6 DEF MigrationInv

LEMMA ReadInfoKeeps == IInv /\ MigrationInv /\ ReadInfo => MigrationInv'
<1> SUFFICES ASSUME IInv, MigrationInv, ReadInfo PROVE MigrationInv'
  OBVIOUS
<1>1. PICK k \in unread : /\ unread' = unread \ {k}
                          /\ infos' = IF blobs[k] = None THEN infos
                                      ELSE infos \cup {<<k, Size[blobs[k]]>>}
  BY DEF ReadInfo
<1>2. /\ phase \in {"infos", "final infos"}
      /\ UNCHANGED <<phase, apply, packages, initial, present, runs, step, downloaded, session>>
      /\ UNCHANGED <<records, bucket>>
  BY DEF ReadInfo, vars, workerVars
<1>3. MigrationTypeOK'
  <2>1. k \in BlobKeys
    BY <1>1 DEF MigrationInv, MigrationTypeOK
  <2>2. blobs[k] # None => Size[blobs[k]] \in Nat
    BY <2>1, ConstantsAssumption DEF IInv, TypeOK
  <2>3. infos' \subseteq BlobKeys \X Nat
    BY <1>1, <2>1, <2>2 DEF MigrationInv, MigrationTypeOK
  <2> QED
    BY <1>1, <1>2, <2>3 DEF MigrationInv, MigrationTypeOK
<1> QED
  BY <1>2, <1>3 DEF MigrationInv, HeldInv, Recorded, ResultInv, RerunsAgree,
     ManifestIsCatalogue, InitialInv, LegacyInPass, LegacyRecord, FinalInv

LEMMA RequeryKeeps == IInv /\ MigrationInv /\ Requery => MigrationInv'
<1> SUFFICES ASSUME IInv, MigrationInv, Requery PROVE MigrationInv'
  OBVIOUS
<1>1. /\ unread = {} /\ unread' = BlobKeys
      /\ \/ phase = "packages" /\ phase' = "infos" /\ infos' = {} /\ packages' = packages
         \/ phase = "final infos" /\ phase' = "final packages" /\ packages' = {}
            /\ infos' = infos
      /\ UNCHANGED <<apply, initial, present, runs, step, downloaded, session>>
      /\ UNCHANGED <<records, bucket>>
  BY DEF Requery, vars, workerVars
<1>2. MigrationTypeOK'
  BY <1>1 DEF MigrationInv, MigrationTypeOK, Phases
<1>3. HeldInv' /\ ResultInv' /\ RerunsAgree' /\ ManifestIsCatalogue' /\ InitialInv'
  BY <1>1 DEF MigrationInv, HeldInv, Recorded, ResultInv, RerunsAgree,
     ManifestIsCatalogue, InitialInv
<1>4. LegacyInPass'
  BY <1>1 DEF MigrationInv, LegacyInPass, LegacyRecord
<1>5. FinalInv'
  <2>1. \A p \in present : p.blob \in BlobKeys
    BY DEF MigrationInv, MigrationTypeOK, IInv, TypeOK, Package
  <2> QED
    BY <1>1, <2>1 DEF FinalInv
<1> QED
  BY <1>2, <1>3, <1>4, <1>5 DEF MigrationInv

\* What Buildable lets through makes a manifest of its artifacts.
LEMMA SnapshotFacts ==
    ASSUME IInv, MigrationInv, Buildable(packages, infos)
    PROVE  LET m == Snapshot(packages, infos)
           IN  /\ m \in Manifest /\ m.keys = {p.blob : p \in packages}
               /\ \A a \in m.artifacts :
                     \E p \in packages : p.fullname = a.fullname /\ p.sha1 = a.sha1
               /\ \A p \in packages : \E a \in m.artifacts : a.fullname = p.fullname
<1> DEFINE sizeOf(p) == (CHOOSE i \in infos : i[1] = p.blob)[2]
           artifact(p) == [fullname |-> p.fullname, sha1 |-> p.sha1, blob |-> p.blob,
                           size |-> sizeOf(p)]
<1>1. \A p \in packages : /\ p.fullname \in Fullnames /\ p.sha1 \in Digests
                          /\ p.blob \in BlobKeys
  BY DEF MigrationInv, MigrationTypeOK, IInv, TypeOK, Package
<1>2. \A p \in packages : sizeOf(p) \in Nat
  BY DEF Buildable, MigrationInv, MigrationTypeOK
<1> HIDE DEF sizeOf
<1>3. \A p \in packages : artifact(p) \in Artifact
  BY <1>1, <1>2 DEF Artifact
<1>4. Snapshot(packages, infos) =
         [artifacts |-> {artifact(p) : p \in packages},
          keys |-> {p.blob : p \in packages}, inventory |-> infos]
  BY DEF Snapshot, sizeOf
<1>5. \A p \in packages : artifact(p).fullname = p.fullname /\ artifact(p).sha1 = p.sha1
  OBVIOUS
<1> HIDE DEF artifact
<1>6. {artifact(p) : p \in packages} \subseteq Artifact
  BY <1>3
<1>7. {p.blob : p \in packages} \subseteq BlobKeys
  BY <1>1
<1>8. infos \subseteq BlobKeys \X Nat
  BY DEF MigrationInv, MigrationTypeOK
<1> QED
  BY <1>4, <1>5, <1>6, <1>7, <1>8 DEF Manifest

LEMMA PreflightKeeps == IInv /\ MigrationInv /\ Preflight => MigrationInv'
<1> SUFFICES ASSUME IInv, MigrationInv, Preflight PROVE MigrationInv'
  OBVIOUS
<1>1. /\ phase = "infos"
      /\ UNCHANGED <<apply, unread, packages, infos, present, runs, downloaded, session>>
      /\ UNCHANGED <<records, bucket>>
  BY DEF Preflight, vars
<1>2. CASE ~Buildable(packages, infos)
  <2>1. phase' = "failed" /\ UNCHANGED <<initial, step>>
    BY <1>2 DEF Preflight
  <2> QED
    BY <1>1, <2>1 DEF MigrationInv, MigrationTypeOK, Phases, HeldInv, Recorded, InitialInv,
       LegacyInPass, ResultInv, FinalInv, ManifestIsCatalogue, RerunsAgree
<1>3. CASE Buildable(packages, infos)
  <2> DEFINE queued(n) == \E p \in packages : p.fullname = n
  <2>1. /\ phase' = "work" /\ initial' = Snapshot(packages, infos)
        /\ step' = [n \in Fullnames |-> IF queued(n) THEN "queued" ELSE "none"]
    BY <1>3 DEF Preflight
  <2>2. \A n \in Fullnames : step'[n] = IF queued(n) THEN "queued" ELSE "none"
    BY <2>1
  <2>3. step' \in [Fullnames -> {"none", "queued"} \cup Running \cup Results]
    BY <2>1
  <2>4. /\ initial' \in Manifest
        /\ \A a \in initial'.artifacts :
              \E p \in packages : p.fullname = a.fullname /\ p.sha1 = a.sha1
        /\ \A p \in packages : \E a \in initial'.artifacts : a.fullname = p.fullname
    BY <1>3, <2>1, SnapshotFacts
  <2>5. MigrationTypeOK'
    BY <1>1, <2>1, <2>3, <2>4 DEF MigrationInv, MigrationTypeOK, Phases
  <2>6. HeldInv'
    BY <1>1, <2>2 DEF MigrationInv, HeldInv, Recorded, Fetched
  <2>7. InitialInv'
    <3>1. packages \subseteq records
      BY DEF MigrationInv, MigrationTypeOK
    <3>2. \A n \in Fullnames : step'[n] # "none" => queued(n)
      BY <2>2
    <3> QED
      BY <1>1, <2>4, <3>1, <3>2 DEF InitialInv
  <2>8. LegacyInPass'
    <3>1. \A n \in DOMAIN Legacy : /\ LegacyRecord(n) \in packages
                                   /\ LegacyRecord(n).fullname = n /\ n \in Fullnames
      BY <1>1, ConstantsAssumption DEF MigrationInv, LegacyInPass, LegacyRecord
    <3>2. \A n \in DOMAIN Legacy : queued(n)
      BY <3>1
    <3> QED
      BY <2>1, <2>2, <3>1, <3>2 DEF LegacyInPass
  <2>9. ResultInv' /\ FinalInv' /\ ManifestIsCatalogue' /\ RerunsAgree'
    BY <2>1, <2>2 DEF ResultInv, FinalInv, ManifestIsCatalogue, RerunsAgree
  <2> QED
    BY <2>5, <2>6, <2>7, <2>8, <2>9 DEF MigrationInv
<1> QED
  BY <1>2, <1>3

LEMMA CollectKeeps == IInv /\ MigrationInv /\ Collect => MigrationInv'
<1> SUFFICES ASSUME IInv, MigrationInv, Collect PROVE MigrationInv'
  OBVIOUS
<1>1. /\ phase = "work" /\ present' = records
      /\ \A n \in Fullnames : step[n] \in {"none"} \cup Results
      /\ \/ phase' = "failed" /\ UNCHANGED <<unread, infos>>
         \/ /\ phase' = "final infos" /\ unread' = BlobKeys /\ infos' = {}
            /\ \A n \in Fullnames : step[n] \notin {"mismatch", "failed"}
      /\ UNCHANGED <<apply, packages, initial, runs, step, downloaded, session>>
      /\ UNCHANGED <<records, bucket>>
  BY DEF Collect, vars, workerVars
<1>2. MigrationTypeOK'
  BY <1>1 DEF MigrationInv, MigrationTypeOK, Phases
<1>3. ResultInv'
  BY <1>1 DEF MigrationInv, ResultInv, Results, Good
<1>4. HeldInv' /\ RerunsAgree' /\ ManifestIsCatalogue' /\ InitialInv' /\ FinalInv'
  BY <1>1 DEF MigrationInv, HeldInv, Recorded, RerunsAgree, ManifestIsCatalogue,
     InitialInv, FinalInv
<1>5. LegacyInPass'
  BY <1>1 DEF MigrationInv, LegacyInPass
<1> QED
  BY <1>2, <1>3, <1>4, <1>5 DEF MigrationInv

LEMMA VerifyStableKeeps == IInv /\ MigrationInv /\ VerifyStable => MigrationInv'
<1> SUFFICES ASSUME IInv, MigrationInv, VerifyStable PROVE MigrationInv'
  OBVIOUS
<1>1. /\ phase = "final packages" /\ unread = {}
      /\ phase' \in {"complete", "failed"}
      /\ phase' = "complete" => /\ Buildable(packages, infos)
                                /\ Snapshot(packages, infos) = initial
      /\ UNCHANGED <<apply, unread, packages, infos, initial, present, runs>>
      /\ UNCHANGED <<step, downloaded, session, records, bucket>>
  BY DEF VerifyStable, vars, workerVars
<1>2. MigrationTypeOK'
  BY <1>1 DEF MigrationInv, MigrationTypeOK, Phases
<1>3. ManifestIsCatalogue'
  <2>1. \A p \in present : p \in packages
    BY <1>1 DEF MigrationInv, FinalInv
  <2>2. phase' = "complete" => initial.keys = {p.blob : p \in packages}
    BY <1>1, SnapshotFacts
  <2> QED
    BY <1>1, <2>1, <2>2 DEF ManifestIsCatalogue
<1>4. HeldInv' /\ RerunsAgree' /\ ResultInv' /\ InitialInv' /\ FinalInv'
  BY <1>1 DEF MigrationInv, HeldInv, Recorded, RerunsAgree, ResultInv, InitialInv, FinalInv
<1>5. LegacyInPass'
  BY <1>1 DEF MigrationInv, LegacyInPass
<1> QED
  BY <1>2, <1>3, <1>4, <1>5 DEF MigrationInv

LEMMA AbortKeeps == MigrationInv /\ Abort => MigrationInv'
<1> SUFFICES ASSUME MigrationInv, Abort PROVE MigrationInv'
  OBVIOUS
<1>1. /\ phase' = "failed"
      /\ UNCHANGED <<apply, unread, packages, infos, initial, present, runs>>
      /\ UNCHANGED <<step, downloaded, session, records, bucket>>
  BY DEF Abort, vars, workerVars
<1> QED
  BY <1>1 DEF MigrationInv, MigrationTypeOK, Phases, HeldInv, Recorded, InitialInv,
     LegacyInPass, ResultInv, FinalInv, ManifestIsCatalogue, RerunsAgree

-----------------------------------------------------------------------------
(* The steps of the workers.                                               *)

\* A worker goes on to its next call: what it needs for that is in place.
LEMMA WorkerGoes ==
    ASSUME IInv, MigrationInv, NEW n \in Fullnames, phase = "work", step[n] # "none",
           NEW to \in {"queued"} \cup Running \cup Results, Goes(n, to),
           UNCHANGED mainVars, UNCHANGED vars,
           downloaded' \in [Fullnames -> Contents \cup {None}],
           session' \in [Fullnames -> Contents \cup {None}],
           \A m \in Fullnames : m # n => downloaded'[m] = downloaded[m],
           \A m \in Fullnames : session'[m] # session[m] => Recorded(m, session'[m]),
           to \in Fetched => Recorded(n, downloaded'[n]),
           to \in {"uploaded", "verified-existing"} => bucket[n] # None,
           to = "would-upload" => ~apply,
           to # "mismatch"
    PROVE  MigrationInv'
<1>1. /\ UNCHANGED <<phase, apply, unread, packages, infos, initial, present, runs>>
      /\ UNCHANGED <<records, bucket>>
  BY DEF mainVars, vars
<1>2. step'[n] = to /\ \A m \in Fullnames : m # n => step'[m] = step[m]
  BY DEF Goes, MigrationInv, MigrationTypeOK
<1>3. step' \in [Fullnames -> {"none", "queued"} \cup Running \cup Results]
  BY DEF Goes, MigrationInv, MigrationTypeOK
<1>4. MigrationTypeOK'
  BY <1>1, <1>3 DEF MigrationInv, MigrationTypeOK
<1>5. HeldInv'
  <2> SUFFICES ASSUME NEW m \in Fullnames
               PROVE  /\ step'[m] \in Fetched => Recorded(m, downloaded'[m])
                      /\ session'[m] # None => Recorded(m, session'[m])
    BY <1>1 DEF HeldInv, Recorded
  <2>1. /\ step[m] \in Fetched => Recorded(m, downloaded[m])
        /\ session[m] # None => Recorded(m, session[m])
    BY DEF MigrationInv, HeldInv
  <2> QED
    BY <1>2, <2>1
<1>6. to # "none"
  BY DEF Running, Results
<1>7. InitialInv' /\ LegacyInPass'
  <2>1. DOMAIN Legacy \subseteq Fullnames
    BY ConstantsAssumption
  <2>2. InitialInv'
    BY <1>1, <1>2 DEF MigrationInv, InitialInv
  <2> QED
    BY <1>1, <1>2, <1>6, <2>1, <2>2 DEF MigrationInv, LegacyInPass
<1>8. ResultInv' /\ RerunsAgree' /\ FinalInv' /\ ManifestIsCatalogue'
  BY <1>1, <1>2 DEF MigrationInv, ResultInv, RerunsAgree, FinalInv, ManifestIsCatalogue
<1> QED
  BY <1>4, <1>5, <1>7, <1>8 DEF MigrationInv

\* The object under the name of a recorded archive is that archive.
LEMMA ObjectIsHeld ==
    ASSUME IInv, NEW n \in Fullnames, Recorded(n, downloaded[n]), bucket[n] # None
    PROVE  MetadataMatches(n)
<1>1. PICK p \in records : p.fullname = n /\ p.sha1 = Sha1[downloaded[n]]
  BY DEF Recorded
<1>2. bucket[n].sha1 = Sha1[downloaded[n]]
  BY <1>1, RecordMatchesObject
<1>3. Sha1[bucket[n].bytes] = bucket[n].sha1 /\ bucket[n].bytes \in Contents
  BY DEF IInv, BucketInv, TypeOK, Object
<1> QED
  BY <1>2, <1>3, DigestAssumption DEF MetadataMatches, Recorded

LEMMA WorkerKeeps ==
    ASSUME IInv, MigrationInv, NEW n \in Fullnames, Worker(n)
    PROVE  MigrationInv'
<1>1. /\ downloaded \in [Fullnames -> Contents \cup {None}]
      /\ session \in [Fullnames -> Contents \cup {None}]
      /\ step[n] \in Fetched => Recorded(n, downloaded[n])
  BY DEF MigrationInv, MigrationTypeOK, HeldInv
<1>2. phase = "work" /\ step[n] # "none" /\ UNCHANGED mainVars /\ UNCHANGED vars
  BY DEF Worker, Take, Download, Look, BeginUpload, FinishUpload, ConfirmUpload
<1>3. step[n] \in Fetched /\ bucket[n] # None => MetadataMatches(n)
  BY <1>1, ObjectIsHeld
<1> USE DEF Running, Results, Fetched
<1>4. CASE Take(n)
  BY <1>1, <1>2, <1>4, WorkerGoes DEF Take
<1>5. CASE Download(n)
  <2>1. CASE Goes(n, "failed") /\ UNCHANGED <<downloaded, session>>
    BY <1>1, <1>2, <2>1, WorkerGoes
  <2>2. ASSUME NEW bytes \in Contents, SourceMatches(bytes, ArtifactOf(n)),
               downloaded' = [downloaded EXCEPT ![n] = bytes],
               Goes(n, "look"), UNCHANGED session
        PROVE  MigrationInv'
    <3>1. PICK a \in initial.artifacts : a.fullname = n
      BY <1>2 DEF MigrationInv, InitialInv
    <3>2. ArtifactOf(n) \in initial.artifacts /\ ArtifactOf(n).fullname = n
      BY <3>1 DEF ArtifactOf
    <3>3. PICK p \in records : p.fullname = n /\ p.sha1 = ArtifactOf(n).sha1
      BY <1>2, <3>2 DEF MigrationInv, InitialInv
    <3>4. downloaded'[n] = bytes /\ Recorded(n, bytes)
      BY <1>1, <2>2, <3>3 DEF SourceMatches, Recorded
    <3> QED
      BY <1>1, <1>2, <2>2, <3>4, WorkerGoes
  <2> QED
    BY <1>5, <2>1, <2>2 DEF Download
<1>6. CASE Look(n)
  <2>1. step[n] \in Fetched /\ UNCHANGED <<downloaded, session>>
    BY <1>6 DEF Look
  <2>2. \/ Goes(n, "verified-existing") /\ bucket[n] # None
        \/ Goes(n, "begin")
        \/ Goes(n, "would-upload") /\ ~apply
        \/ Goes(n, "failed")
    BY <1>3, <1>6, <2>1 DEF Look
  <2> QED
    BY <1>1, <1>2, <2>1, <2>2, WorkerGoes
<1>7. CASE BeginUpload(n)
  <2>1. /\ Recorded(n, downloaded[n]) /\ downloaded' = downloaded
        /\ session' = session \/ session' = [session EXCEPT ![n] = downloaded[n]]
        /\ Goes(n, "finish")
    BY <1>1, <1>7 DEF BeginUpload
  <2>2. /\ session' \in [Fullnames -> Contents \cup {None}]
        /\ \A m \in Fullnames : session'[m] # session[m] => Recorded(m, session'[m])
    BY <1>1, <2>1
  <2> QED
    BY <1>1, <1>2, <2>1, <2>2, WorkerGoes
<1>8. CASE FinishUpload(n)
  <2>1. step[n] \in Fetched /\ UNCHANGED <<downloaded, session>>
    BY <1>8 DEF FinishUpload
  <2>2. Goes(n, "confirm-uploaded") \/ Goes(n, "confirm-existing") \/ Goes(n, "failed")
    BY <1>8 DEF FinishUpload
  <2> QED
    BY <1>1, <1>2, <2>1, <2>2, WorkerGoes
<1>9. CASE ConfirmUpload(n)
  <2>1. step[n] \in Fetched /\ UNCHANGED <<downloaded, session>>
    BY <1>9 DEF ConfirmUpload
  <2>2. \/ /\ Goes(n, "uploaded") \/ Goes(n, "verified-existing")
           /\ bucket[n] # None
        \/ Goes(n, "failed")
    BY <1>3, <1>9, <2>1 DEF ConfirmUpload
  <2> QED
    BY <1>1, <1>2, <2>1, <2>2, WorkerGoes
<1> QED
  BY <1>4, <1>5, <1>6, <1>7, <1>8, <1>9 DEF Worker

-----------------------------------------------------------------------------
(* The theorems.                                                           *)

LEMMA MigrationStarts == MigrationInit => IInv /\ MigrationInv
<1> SUFFICES ASSUME MigrationInit PROVE IInv /\ MigrationInv
  OBVIOUS
<1>1. IInv
  BY InitEstablishes DEF MigrationInit
<1>2. /\ phase = "off" /\ apply = FALSE /\ runs = 0 /\ unread = {} /\ packages = {}
      /\ infos = {} /\ present = {} /\ initial = None
      /\ \A n \in Fullnames : step[n] = "none" /\ session[n] = None
  BY DEF MigrationInit
<1>3. MigrationTypeOK
  <2>1. /\ step \in [Fullnames -> {"none", "queued"} \cup Running \cup Results]
        /\ downloaded \in [Fullnames -> Contents \cup {None}]
        /\ session \in [Fullnames -> Contents \cup {None}]
    BY DEF MigrationInit
  <2> QED
    BY <1>2, <2>1 DEF MigrationTypeOK, Phases
<1> QED
  BY <1>1, <1>2, <1>3 DEF MigrationInv, HeldInv, InitialInv, LegacyInPass, ResultInv,
     FinalInv, ManifestIsCatalogue, RerunsAgree, Fetched

LEMMA MigrationKeeps ==
    IInv /\ MigrationInv /\ [MigrationNext]_allVars => (IInv /\ MigrationInv)'
<1> SUFFICES ASSUME IInv, MigrationInv, [MigrationNext]_allVars
             PROVE  IInv' /\ MigrationInv'
  OBVIOUS
<1>1. CASE [Next]_vars /\ UNCHANGED migrationVars
  BY <1>1, HandlersKeep, GrowthPreserves
<1>2. ASSUME NEW n \in Fullnames, CreateObject(n) PROVE IInv' /\ MigrationInv'
  BY <1>2, CreateObjectKeeps, GrowthPreserves DEF CreateObject
<1>3. CASE Start \/ Main \/ Abort \/ \E n \in Fullnames : Worker(n)
  <2>1. UNCHANGED vars
    BY <1>3 DEF Start, Main, ReadPackage, ReadInfo, Requery, Preflight, Collect,
       VerifyStable, Abort, Worker, Take, Download, Look, BeginUpload, FinishUpload,
       ConfirmUpload
  <2>2. IInv'
    BY <2>1, StepPreserves
  <2>3. MigrationInv'
    BY <1>3, StartKeeps, ReadPackageKeeps, ReadInfoKeeps, RequeryKeeps, PreflightKeeps,
       CollectKeeps, VerifyStableKeeps, AbortKeeps, WorkerKeeps DEF Main
  <2> QED
    BY <2>2, <2>3
<1> QED
  BY <1>1, <1>2, <1>3 DEF MigrationNext, allVars

\* Both inductive invariants hold in every state of the composition.
THEOREM MigrationInvariance == MigrationSpec => [](IInv /\ MigrationInv)
<1> QED
  BY MigrationStarts, MigrationKeeps, PTL DEF MigrationSpec

\* "Migration complete" with --apply: every package of the catalogue is in the
\* bucket with the bytes of its SHA-1.  The legacy packages were all read and
\* have a result; the handlers mirror the others before they record them.
THEOREM CompleteMeansMirrored == MigrationSpec => []CompletedIsMirrored
<1>1. IInv /\ MigrationInv => CompletedIsMirrored
  <2> SUFFICES ASSUME IInv, MigrationInv, phase = "complete", apply, NEW p \in records
               PROVE  IsMirrored(p)
    BY DEF CompletedIsMirrored
  <2>1. p.fullname \in Fullnames /\ RecordInv(p)
    BY DEF IInv, TypeOK, Package
  <2>2. bucket[p.fullname] # None
    <3>1. CASE p.blob \in DOMAIN Legacy /\ p = LegacyRecord(p.blob)
      <4>1. p.fullname \in DOMAIN Legacy
        BY <3>1 DEF LegacyRecord
      <4>2. step[p.fullname] \in {"none"} \cup Good /\ step[p.fullname] # "none"
        BY <2>1, <4>1 DEF MigrationInv, ResultInv, LegacyInPass
      <4>3. step[p.fullname] # "would-upload"
        BY <2>1 DEF MigrationInv, ResultInv
      <4> QED
        BY <2>1, <4>2, <4>3 DEF Good, MigrationInv, ResultInv
    <3> QED
      BY <2>1, <3>1 DEF RecordInv, InBucket
  <2> QED
    BY <2>1, <2>2, RecordMatchesObject DEF IsMirrored, IInv, BucketInv
<1> QED
  BY <1>1, MigrationInvariance, PTL

\* A migration that is complete has verified every package that was published
\* before its last worker ended: the second query begins after that.
THEOREM ManifestCoversCatalogue == MigrationSpec => []ManifestIsCatalogue
<1>1. MigrationInv => ManifestIsCatalogue
  BY DEF MigrationInv
<1> QED
  BY <1>1, MigrationInvariance, PTL

\* No object a handler or an earlier, killed migration has made is refused.
THEOREM MigrationsAgree == MigrationSpec => []RerunsAgree
<1>1. MigrationInv => RerunsAgree
  BY DEF MigrationInv
<1> QED
  BY <1>1, MigrationInvariance, PTL

\* What the upload handlers promise they promise next to a migration as well.
THEOREM HandlersKeepPromises ==
    MigrationSpec =>
        [](/\ PublishedIsMirrored /\ RecordsAgreeOnSha1 /\ RecordsAreServable
           /\ OkMeansPublished /\ RefusedIsNotPublished /\ ConflictIsJustified)
<1> QED
  BY MigrationInvariance, Promises, PTL

\* The migration never replaces an object either: its uploads are create-only.
THEOREM MigrationNeverReplaces == MigrationSpec => MirrorIsImmutable
<1> DEFINE Kept == \A n \in Fullnames : bucket[n] # None => bucket'[n] = bucket[n]
<1>1. IInv /\ MigrationInv /\ [MigrationNext]_allVars => [Kept]_vars
  <2> SUFFICES ASSUME IInv, [MigrationNext]_allVars PROVE Kept
    OBVIOUS
  <2>1. CASE [Next]_vars
    BY <2>1, StepKeepsObjects DEF IInv
  <2>2. CASE \E n \in Fullnames : CreateObject(n)
    BY <2>2 DEF CreateObject, IInv, TypeOK
  <2>3. CASE UNCHANGED vars
    BY <2>3 DEF vars
  <2> QED
    BY <2>1, <2>2, <2>3 DEF MigrationNext, allVars, Start, Main, ReadPackage, ReadInfo,
       Requery, Preflight, Collect, VerifyStable, Abort, Worker, Take, Download, Look,
       BeginUpload, FinishUpload, ConfirmUpload
<1> QED
  BY <1>1, MigrationInvariance, PTL DEF MigrationSpec, MirrorIsImmutable

-----------------------------------------------------------------------------
(***************************************************************************)
(* One resumable upload, for archives and chunks of any size and any       *)
(* limits: the client never overtakes the session, and upload keeps the    *)
(* contract by which the migration uses it.                                *)
(***************************************************************************)

\* The chunks that may still arrive end within the archive, and an upload that
\* has returned, or created the object, has handed over all of it.
UploadInv ==
    /\ UploadTypeOK
    /\ OffsetIsAcknowledged
    /\ \A chunk \in late : chunk[2] <= size
    /\ object = "ours" => committed = size
    /\ request = "returned" => committed = size
    /\ request = "begin" => offset = 0 /\ late = {} /\ object # "ours"
    /\ request = "empty" => size = 0
    /\ request \in {"send", "query"} => offset < size

\* Initially nothing is sent and nothing is held.
LEMMA UploadStarts == UploadInit => UploadInv
BY UploadAssumption DEF UploadInit, UploadInv, UploadTypeOK, OffsetIsAcknowledged, UploadEnded

\* What the session holds only grows, up to the archive, and it is whole
\* when the object is created.
LEMMA ReceiveGrows ==
    ASSUME UploadInv, NEW from \in Nat, NEW to \in Nat, Receive(from, to)
    PROVE  /\ committed' \in 0..size /\ committed <= committed'
           /\ object' \in {"none", "ours", "theirs"}
           /\ object' = "ours" => committed' = size
           /\ object' = object \/ (object = "none" /\ object' = "ours")
BY UploadAssumption DEF Receive, UploadInv, UploadTypeOK

\* A round that ends with what the session holds keeps the invariant.
LEMMA AdvanceKeeps ==
    ASSUME UploadInv, request \in {"send", "query"}, UNCHANGED size,
           committed' \in 0..size, committed <= committed',
           NEW o \in 0..size, o <= committed', Advance(o)
    PROVE  /\ request' \in {"send", "failed", "returned"}
           /\ offset' \in 0..size /\ stalled' \in 0..(MaxStalled - 1)
           /\ tries' \in 0..(Attempts - 1)
           /\ request' # "failed" => offset' <= committed'
           /\ request' = "returned" => committed' = size
           /\ request' = "send" => offset' < size
BY UploadAssumption DEF Advance, End, LoopAt, UploadInv, UploadTypeOK, OffsetIsAcknowledged, UploadEnded

\* Every step of the client or of the service keeps it.
LEMMA UploadKeeps == UploadInv /\ [UploadNext]_uploadVars => UploadInv'
<1> SUFFICES ASSUME UploadInv, [UploadNext]_uploadVars PROVE UploadInv'
    OBVIOUS
<1> USE UploadAssumption
<1>1. CASE BeginSession /\ UNCHANGED size
    BY <1>1 DEF BeginSession, LoopAt, End, TryAgain, serviceVars, UploadInv, UploadTypeOK,
       OffsetIsAcknowledged, UploadEnded
<1>2. CASE Send /\ UNCHANGED size
    <2>1. /\ offset \in Nat /\ ChunkEnd \in 0..size
        BY <1>2 DEF ChunkEnd, Smaller, UploadInv, UploadTypeOK
    <2>2. /\ committed' \in 0..size /\ committed <= committed'
          /\ object' \in {"none", "ours", "theirs"}
          /\ object' = "ours" => committed' = size
        BY <1>2, <2>1, ReceiveGrows DEF Send
    <2>3. /\ late' \subseteq (0..size) \X (0..size)
          /\ \A chunk \in late' : chunk[2] <= size
        BY <1>2, <2>1 DEF Send, UploadInv, UploadTypeOK
    <2>4. CASE Advance(size) /\ object' = "ours"
        BY <1>2, <2>2, <2>3, <2>4, AdvanceKeeps DEF Send, UploadInv, UploadTypeOK, OffsetIsAcknowledged, UploadEnded
    <2>5. CASE Advance(committed')
        BY <1>2, <2>2, <2>3, <2>5, AdvanceKeeps DEF Send, UploadInv, UploadTypeOK, OffsetIsAcknowledged, UploadEnded
    <2>6. CASE request' = "query" /\ tries' = 0 /\ UNCHANGED <<offset, stalled>>
        BY <1>2, <2>2, <2>3, <2>6 DEF Send, UploadInv, UploadTypeOK, OffsetIsAcknowledged, UploadEnded
    <2>7. CASE End("exists") \/ End("failed")
        BY <1>2, <2>2, <2>3, <2>7 DEF End, UploadInv, UploadTypeOK, OffsetIsAcknowledged, UploadEnded
    <2> QED BY <1>2, <2>4, <2>5, <2>6, <2>7 DEF Send
<1>3. CASE QueryOffset /\ UNCHANGED size
    <2>1. /\ committed' = committed /\ object' = object /\ late' = late
          /\ committed \in 0..size /\ size \in 0..size
        BY <1>3 DEF QueryOffset, serviceVars, UploadInv, UploadTypeOK
    <2>2. CASE object = "ours" /\ Advance(size)
        BY <1>3, <2>1, <2>2, AdvanceKeeps DEF QueryOffset, UploadInv, UploadTypeOK, OffsetIsAcknowledged, UploadEnded
    <2>3. CASE Advance(committed)
        BY <1>3, <2>1, <2>3, AdvanceKeeps DEF QueryOffset, UploadInv, UploadTypeOK, OffsetIsAcknowledged, UploadEnded
    <2>4. CASE End("exists") \/ End("failed") \/ TryAgain
        BY <1>3, <2>1, <2>4 DEF QueryOffset, End, TryAgain, UploadInv, UploadTypeOK, OffsetIsAcknowledged, UploadEnded
    <2> QED BY <1>3, <2>2, <2>3, <2>4 DEF QueryOffset
<1>4. CASE SendEmpty /\ UNCHANGED size
    <2>1. /\ committed' \in 0..size /\ committed <= committed'
          /\ object' \in {"none", "ours", "theirs"}
          /\ object' = "ours" => committed' = size
        BY <1>4, ReceiveGrows DEF SendEmpty
    <2> QED BY <1>4, <2>1 DEF SendEmpty, End, UploadInv, UploadTypeOK, OffsetIsAcknowledged, UploadEnded
<1>5. CASE Kill /\ UNCHANGED size
    BY <1>5 DEF Kill, End, serviceVars, UploadInv, UploadTypeOK, OffsetIsAcknowledged, UploadEnded
<1>6. CASE ReceiveLate /\ UNCHANGED size
    <2>1. PICK chunk \in late : /\ Receive(chunk[1], chunk[2])
                                /\ late' = late \ {chunk}
                                /\ UNCHANGED clientVars
        BY <1>6 DEF ReceiveLate
    <2>2. chunk[1] \in Nat /\ chunk[2] \in Nat
        BY <2>1 DEF UploadInv, UploadTypeOK
    <2>3. /\ committed' \in 0..size /\ committed <= committed'
          /\ object' \in {"none", "ours", "theirs"}
          /\ object' = "ours" => committed' = size
        BY <2>1, <2>2, ReceiveGrows
    <2> QED BY <1>6, <2>1, <2>3 DEF clientVars, UploadInv, UploadTypeOK, OffsetIsAcknowledged, UploadEnded
<1>7. CASE (Finalise \/ Rival) /\ UNCHANGED size
    BY <1>7 DEF Finalise, Rival, clientVars, UploadInv, UploadTypeOK, OffsetIsAcknowledged, UploadEnded
<1>8. CASE UNCHANGED uploadVars
    BY <1>8 DEF uploadVars, UploadInv, UploadTypeOK, OffsetIsAcknowledged, UploadEnded
<1> QED BY <1>1, <1>2, <1>3, <1>4, <1>5, <1>6, <1>7, <1>8 DEF UploadNext, Client

\* The invariant holds of every behaviour.
LEMMA UploadInductive == UploadSpec => []UploadInv
BY UploadStarts, UploadKeeps, PTL DEF UploadSpec

\* For archives and chunks of any size the offset of upload is never beyond
\* what the session holds, in spite of lost answers, partial chunks and
\* chunks that arrive late: no gap, no byte skipped.
THEOREM OffsetSafety == UploadSpec => []OffsetIsAcknowledged
<1>1. UploadInv => OffsetIsAcknowledged
    BY DEF UploadInv
<1> QED BY <1>1, UploadInductive, PTL

\* The client counts within its limits and the session within the archive.
THEOREM UploadTypes == UploadSpec => []UploadTypeOK
<1>1. UploadInv => UploadTypeOK
    BY DEF UploadInv
<1> QED BY <1>1, UploadInductive, PTL

\* The initial states are initial states of the contract.
LEMMA ContractInitially == UploadInit => Contract!ContractInit
BY UploadAssumption DEF UploadInit, Contract!ContractInit, UploadEnded

\* A step of the client or of the service is one of the contract.
LEMMA ContractStep ==
    UploadInv /\ UploadInv' /\ [UploadNext]_uploadVars => [Contract!ContractNext]_(Contract!contractVars)
<1> SUFFICES ASSUME UploadInv, UploadInv', [UploadNext]_uploadVars
             PROVE  [Contract!ContractNext]_(Contract!contractVars)
    OBVIOUS
<1> USE UploadAssumption DEF Contract!ContractNext, Contract!contractVars,
        Contract!Create, Contract!End, UploadEnded
<1>1. CASE BeginSession /\ UNCHANGED size
    BY <1>1 DEF BeginSession, LoopAt, End, TryAgain, serviceVars, UploadInv, UploadTypeOK
<1>2. CASE Send /\ UNCHANGED size
    <2>1. offset \in Nat /\ ChunkEnd \in Nat
        BY <1>2 DEF ChunkEnd, Smaller, UploadInv, UploadTypeOK
    <2>2. /\ committed <= committed' /\ committed' \in 0..size /\ committed \in 0..size
          /\ object' = object \/ (object = "none" /\ object' = "ours")
          /\ object' = "ours" => committed' = size
        BY <1>2, <2>1, ReceiveGrows DEF Send, UploadInv, UploadTypeOK
    <2>3. committed = size => committed' = size
        BY <1>2, <2>2 
    <2>4. /\ request = "send"
          /\ request' = "exists" => object' = "theirs"
          /\ request' \in {"send", "query", "returned", "failed", "exists"}
        BY <1>2 DEF Send, Advance, End, LoopAt, UploadInv, UploadTypeOK
    <2>5. request' = "returned" => committed' = size'
        BY DEF UploadInv
    <2> QED BY <1>2, <2>2, <2>3, <2>4, <2>5
<1>3. CASE QueryOffset /\ UNCHANGED size
    <2>1. /\ request = "query" /\ UNCHANGED <<committed, object>>
          /\ request' = "exists" => object' = "theirs"
          /\ request' \in {"send", "query", "returned", "failed", "exists"}
        BY <1>3 DEF QueryOffset, Advance, TryAgain, End, LoopAt, serviceVars, UploadInv, UploadTypeOK
    <2>2. request' = "returned" => committed' = size'
        BY DEF UploadInv
    <2> QED BY <1>3, <2>1, <2>2
<1>4. CASE SendEmpty /\ UNCHANGED size
    <2>1. /\ committed <= committed' /\ committed' \in 0..size /\ committed \in 0..size
          /\ object' = object \/ (object = "none" /\ object' = "ours")
          /\ object' = "ours" => committed' = size
        BY <1>4, ReceiveGrows DEF SendEmpty, UploadInv, UploadTypeOK
    <2> QED BY <1>4, <2>1 DEF SendEmpty, End, UploadInv, UploadTypeOK
<1>5. CASE Kill /\ UNCHANGED size
    BY <1>5 DEF Kill, End, serviceVars
<1>6. CASE ReceiveLate /\ UNCHANGED size
    <2>1. PICK chunk \in late : Receive(chunk[1], chunk[2]) /\ UNCHANGED clientVars
        BY <1>6 DEF ReceiveLate
    <2>2. chunk[1] \in Nat /\ chunk[2] \in Nat
        BY <2>1 DEF UploadInv, UploadTypeOK
    <2>3. /\ committed <= committed' /\ committed' \in 0..size /\ committed \in 0..size
          /\ object' = object \/ (object = "none" /\ object' = "ours")
          /\ object' = "ours" => committed' = size
        BY <2>1, <2>2, ReceiveGrows DEF UploadInv, UploadTypeOK
    <2> QED BY <1>6, <2>1, <2>3 DEF clientVars
<1>7. CASE (Finalise \/ Rival) /\ UNCHANGED size
    BY <1>7 DEF Finalise, Rival, clientVars
<1>8. CASE UNCHANGED uploadVars
    BY <1>8 DEF uploadVars
<1> QED BY <1>1, <1>2, <1>3, <1>4, <1>5, <1>6, <1>7, <1>8 DEF UploadNext, Client

\* upload keeps UploadContract for archives and chunks of any size.
THEOREM UploadKeepsContract == UploadSpec => ImplementsContract
BY ContractInitially, ContractStep, UploadInductive, PTL DEF UploadSpec, ImplementsContract, Contract!ContractSpec
=============================================================================
