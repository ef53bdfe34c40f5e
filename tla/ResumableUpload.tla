--------------------------- MODULE ResumableUpload ---------------------------
(***************************************************************************)
(* One resumable upload to Cloud Storage: GcsClient.upload of scripts/     *)
(* migrate_package_blobs.py, against a service that may persist a part of  *)
(* a chunk, whose answers are lost, and which may act on a request long    *)
(* after the client has stopped waiting for it.                            *)
(*                                                                         *)
(* Bytes are counted in units of 256 KiB; what they are does not matter,   *)
(* only how many of them the session holds.                                *)
(***************************************************************************)
EXTENDS Naturals

CONSTANTS
    Sizes,       \* the sizes of archives
    ChunkSize,   \* chunk_size
    Attempts,    \* attempts of _request_bytes
    MaxStalled   \* MAX_STALLED_UPLOAD_ATTEMPTS

ASSUME UploadAssumption ==
    /\ Sizes \subseteq Nat
    /\ ChunkSize \in Nat \ {0}
    /\ Attempts \in Nat \ {0}
    /\ MaxStalled \in Nat \ {0}

VARIABLES
    size,        \* downloaded.size
    request,     \* the request the client makes next, or how it ended
    offset,      \* the bytes it believes the session holds
    stalled,     \* stalled_attempts
    tries,       \* attempts of the current call that failed
    committed,   \* the bytes the session holds
    object,      \* who created the object, if anybody has
    late         \* chunks the service may still receive, though nobody waits

clientVars == <<request, offset, stalled, tries>>
serviceVars == <<committed, object, late>>
uploadVars == <<size, request, offset, stalled, tries, committed, object, late>>

UploadEnded == {"returned", "exists", "failed"}

UploadTypeOK ==
    /\ size \in Sizes
    /\ request \in {"begin", "send", "query", "empty"} \cup UploadEnded
    /\ offset \in 0..size
    /\ stalled \in 0..(MaxStalled - 1)
    /\ tries \in 0..(Attempts - 1)
    /\ committed \in 0..size
    /\ object \in {"none", "ours", "theirs"}
    /\ late \subseteq (0..size) \X (0..size)

UploadInit ==
    /\ size \in Sizes
    /\ request = "begin"
    /\ offset = 0 /\ stalled = 0 /\ tries = 0
    /\ committed = 0 /\ late = {}
    /\ object \in {"none", "theirs"}

-----------------------------------------------------------------------------
(* The service.                                                            *)

Smaller(a, b) == IF a < b THEN a ELSE b

\* Mutant: the upload has no precondition.
ReceiveOverwriting(from, to) ==
    /\ committed' \in {c \in 0..size :
                          c = committed \/ (from <= committed /\ committed < c /\ c <= to)}
    /\ \/ UNCHANGED object
       \/ committed' = size /\ object' = "ours"

\* A chunk extends what the session holds, by all of it or by a part; one that
\* would leave a gap is not taken.  With the last byte the object is created,
\* unless the name is taken (ifGenerationMatch=0).
Receive(from, to) ==
    /\ committed' \in {c \in 0..size :
                          c = committed \/ (from <= committed /\ committed < c /\ c <= to)}
    /\ \/ UNCHANGED object
       \/ object = "none" /\ committed' = size /\ object' = "ours"

\* A request whose connection was given up reaches the service after all.
ReceiveLate ==
    \E chunk \in late :
        /\ Receive(chunk[1], chunk[2])
        /\ late' = late \ {chunk}
        /\ UNCHANGED clientVars

\* The service completes an upload of which it holds every byte.
Finalise ==
    /\ request # "begin" /\ committed = size /\ object = "none"
    /\ object' = "ours"
    /\ UNCHANGED <<clientVars, committed, late>>

\* Another operator, or an upload handler of the repository, is first.
Rival ==
    /\ object = "none"
    /\ object' = "theirs"
    /\ UNCHANGED <<clientVars, committed, late>>

-----------------------------------------------------------------------------
(* The client.                                                             *)

End(how) ==
    /\ request' = how
    /\ UNCHANGED <<offset, stalled, tries>>

\* _request_bytes: a call whose answer is lost, or that is answered with a
\* transient status, is repeated until Attempts of them have failed.
TryAgain ==
    IF tries + 1 < Attempts
    THEN tries' = tries + 1 /\ UNCHANGED <<request, offset, stalled>>
    ELSE End("failed")

\* Where the loop goes when the session holds o bytes.
LoopAt(o) ==
    IF o < size THEN "send" ELSE IF size = 0 THEN "empty" ELSE "returned"

\* _begin_upload.  A repeated POST leaves an empty session behind, which
\* nobody uses.  A missing Location fails like a permanent status.
BeginSession ==
    /\ request = "begin"
    /\ \/ request' = LoopAt(0) /\ tries' = 0 /\ UNCHANGED <<offset, stalled>>
       \/ object # "none" /\ End("exists")
       \/ End("failed")
       \/ TryAgain
    /\ UNCHANGED serviceVars

\* Mutant: stalled attempts are not counted.
AdvanceForever(o) ==
    \/ /\ o < offset
       /\ End("failed")
    \/ /\ o = offset
       /\ request' = "send" /\ tries' = 0
       /\ UNCHANGED <<offset, stalled>>
    \/ /\ o > offset
       /\ request' = LoopAt(o) /\ offset' = o /\ stalled' = 0 /\ tries' = 0

\* The end of one round of the loop, once it is known that the session holds
\* o bytes: an error if that is less than before, a stalled attempt if it is
\* no more.
Advance(o) ==
    \/ /\ o < offset
       /\ End("failed")
    \/ /\ o = offset
       /\ IF stalled + 1 < MaxStalled
          THEN request' = "send" /\ stalled' = stalled + 1 /\ tries' = 0
               /\ UNCHANGED offset
          ELSE End("failed")
    \/ /\ o > offset
       /\ request' = LoopAt(o) /\ offset' = o /\ stalled' = 0 /\ tries' = 0

ChunkEnd == Smaller(offset + ChunkSize, size)

\* Mutant: a chunk that was answered with 308 was taken as a whole.
SendAssuming ==
    /\ request = "send"
    /\ Receive(offset, ChunkEnd)
    /\ Advance(ChunkEnd)
    /\ UNCHANGED late

\* A PUT of the next chunk, tried once.  308 tells in its Range what the
\* session holds and has no Range when it holds nothing; 412 is raised to
\* migrate_one; without an answer the session is asked.
Send ==
    /\ request = "send"
    /\ Receive(offset, ChunkEnd)
    /\ \/ object' = "ours" /\ Advance(size) /\ UNCHANGED late
       \/ object' # "ours" /\ committed' > 0 /\ Advance(committed') /\ UNCHANGED late
       \/ /\ committed' = 0
          /\ request' = "query" /\ tries' = 0 /\ UNCHANGED <<offset, stalled, late>>
       \/ object' = "theirs" /\ committed' = size /\ End("exists") /\ UNCHANGED late
       \/ End("failed") /\ UNCHANGED late
       \/ /\ request' = "query" /\ tries' = 0 /\ UNCHANGED <<offset, stalled>>
          /\ late' \in {late, late \cup {<<offset, ChunkEnd>>}}

\* _query_offset: an empty PUT, tried three times.
QueryOffset ==
    /\ request = "query"
    /\ \/ object = "ours" /\ Advance(size)
       \/ object # "ours" /\ Advance(committed)
       \/ object = "theirs" /\ committed = size /\ End("exists")
       \/ End("failed")
       \/ TryAgain
    /\ UNCHANGED serviceVars

\* The request that completes an upload of no bytes.  308 is accepted here
\* too, and there is no second attempt.
SendEmpty ==
    /\ request = "empty"
    /\ Receive(0, 0)
    /\ \/ End("returned")
       \/ object' = "theirs" /\ End("exists")
       \/ End("failed")
    /\ UNCHANGED late

Client == BeginSession \/ Send \/ QueryOffset \/ SendEmpty

\* The process is killed.
Kill ==
    /\ request \notin UploadEnded
    /\ End("failed")
    /\ UNCHANGED serviceVars

UploadNext ==
    /\ Client \/ Kill \/ ReceiveLate \/ Finalise \/ Rival
    /\ UNCHANGED size

UploadSpec == UploadInit /\ [][UploadNext]_uploadVars

\* Every request has a timeout, so a running client always takes a step.
FairUploadSpec == UploadSpec /\ WF_uploadVars(Client /\ UNCHANGED size)

-----------------------------------------------------------------------------

\* upload never believes that the session holds bytes that it does not hold,
\* however answers were lost and chunks were cut short: so that it never
\* leaves a gap, and the error "moved backwards" is only about a service that
\* forgets what it acknowledged.
OffsetIsAcknowledged == request \notin UploadEnded => offset <= committed

\* The loop of upload ends although no answer ever arrives: a round that makes
\* no progress is counted, and one that does brings the end closer.
UploadEnds == <>(request \in UploadEnded)

\* upload keeps UploadContract: create-only, PreconditionFailed only about a
\* name that is taken, and every byte handed over when it returns.
Contract == INSTANCE UploadContract WITH
    outcome <- IF request \in UploadEnded THEN request ELSE "running",
    whole <- committed = size

ImplementsContract == Contract!ContractSpec
=============================================================================
