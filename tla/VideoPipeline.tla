--------------------------- MODULE VideoPipeline ---------------------------
(***************************************************************************)
(* The life of an uploaded video, from POST /videos/init to the moment the *)
(* background worker publishes or fails it.                                *)
(*                                                                         *)
(*   client   PUTs bytes to the raw bucket through the presigned URL       *)
(*   API      confirm_upload: one database transaction that locks the row, *)
(*            inspects the object, pushes a job on the Redis list and only *)
(*            then commits                                                 *)
(*   worker   pops a job, downloads, probes, transcodes, uploads the       *)
(*            public copy, writes the row; retries transient errors        *)
(*   owner    soft-deletes the row                                         *)
(*   admin    hard-deletes: object first, row second                       *)
(*                                                                         *)
(* A row is seen by other processes only in its committed state.  Writers  *)
(* of a row wait for the confirm transaction that holds its row lock       *)
(* (SELECT ... FOR UPDATE); plain reads do not.  The list and feed caches  *)
(* that these handlers invalidate, and the byte quota that confirm_upload  *)
(* charges, are components of their own and are not part of this module.   *)
(***************************************************************************)
EXTENDS Naturals, Sequences

CONSTANTS Video,        \* ids of the videos
          Request,      \* concurrent invocations of confirm_upload
          Worker,       \* worker processes consuming the queue
          NoVideo,      \* job of an idle worker or request
          NoRequest,    \* owner of a free row lock
          MaxAttempts,  \* WORKER_RETRY_MAX_ATTEMPTS
          MaxOrphans    \* bound: aborts between push and commit, per video

ASSUME NullAssumption == NoVideo \notin Video /\ NoRequest \notin Request
ASSUME AttemptsAssumption == MaxAttempts \in Nat \ {0}
ASSUME OrphansAssumption == MaxOrphans \in Nat

VARIABLES
  status,     \* committed videos.status; "absent" before insert, "purged" after DELETE
  bucket,     \* committed videos.s3_bucket: where the row says the media is
  deleted,    \* the videos whose deleted_at IS NOT NULL
  rawObj,     \* what the raw bucket holds under the video's key
  pubObj,     \* the videos whose transcoded copy is in the public bucket
  lockedBy,   \* the confirm transaction holding the row lock
  rpc,        \* where each confirm_upload invocation stands
  rvideo,     \* the video it is about
  queue,      \* the Redis list video_processing_queue, next job first
  wpc,        \* where each worker stands
  wjob,       \* job.video_id
  wattempt,   \* attempt
  werror,     \* the workers whose last_error is Some
  wsource,    \* video.s3_bucket as read at the start of the attempt
  purge,      \* progress of an admin hard delete of the video
  signalled,  \* statuses announced on the Redis pub/sub channel so far
  orphans,    \* history: jobs pushed by a transaction that then rolled back
  wiped,      \* history: videos whose object a hard delete has removed
  lost        \* history: videos whose job died with the worker

rowVars == <<status, bucket, deleted>>
objVars == <<rawObj, pubObj>>
reqVars == <<lockedBy, rpc, rvideo>>
wrkVars == <<wpc, wjob, wattempt, werror, wsource>>
vars == <<rowVars, objVars, reqVars, queue, wrkVars, purge, signalled,
          orphans, wiped, lost>>

Live == {"DRAFT", "PROCESSING", "PUBLISHED", "FAILED"}
Status == Live \cup {"absent", "purged"}
Bucket == {"raw", "public"}

(***************************************************************************)
(* What the object under the raw key can be, as far as the checks of       *)
(* confirm_upload and of the worker tell apart: of a wrong size, without a *)
(* video container signature, a container the worker cannot decode, or a   *)
(* proper video.                                                           *)
(***************************************************************************)
Upload == {"missized", "disguised", "corrupt", "valid"}
SizeOk(o) == o \in Upload \ {"missized"}
LooksLikeSupportedVideoContainer(o) == o \in {"corrupt", "valid"}
Decodable(o) == o = "valid"

RowType ==
  /\ status \in [Video -> Status]
  /\ bucket \in [Video -> Bucket]
  /\ deleted \in SUBSET Video

ObjectType ==
  /\ rawObj \in [Video -> Upload \cup {"none"}]
  /\ pubObj \in SUBSET Video

RequestType ==
  /\ lockedBy \in [Video -> Request \cup {NoRequest}]
  /\ rpc \in [Request -> {"idle", "locked", "sized", "verified", "pushed",
                          "committed"}]
  /\ rvideo \in [Request -> Video \cup {NoVideo}]
  /\ \A r \in Request : rpc[r] # "idle" => rvideo[r] \in Video

WorkerType ==
  /\ wpc \in [Worker -> {"idle", "read", "media", "upload", "write",
                         "signal", "finish"}]
  /\ wjob \in [Worker -> Video \cup {NoVideo}]
  /\ wattempt \in [Worker -> 1 .. MaxAttempts]
  /\ werror \in SUBSET Worker
  /\ wsource \in [Worker -> Bucket]
  /\ \A w \in Worker : wpc[w] # "idle" <=> wjob[w] \in Video

OtherType ==
  /\ purge \in [Video -> {"none", "raw", "public", "row"}]
  /\ signalled \in [Video -> SUBSET {"PROCESSING", "PUBLISHED", "FAILED"}]
  /\ orphans \in [Video -> 0 .. MaxOrphans]
  /\ wiped \in SUBSET Video
  /\ lost \in SUBSET Video

\* Every variable has its type, and whoever is at work has a video to work on.
TypeOK ==
  /\ RowType
  /\ ObjectType
  /\ RequestType
  /\ queue \in Seq(Video)
  /\ WorkerType
  /\ OtherType

Init ==
  /\ status = [v \in Video |-> "absent"]
  /\ bucket = [v \in Video |-> "raw"]
  /\ deleted = {}
  /\ rawObj = [v \in Video |-> "none"]
  /\ pubObj = {}
  /\ lockedBy = [v \in Video |-> NoRequest]
  /\ rpc = [r \in Request |-> "idle"]
  /\ rvideo = [r \in Request |-> NoVideo]
  /\ queue = <<>>
  /\ wpc = [w \in Worker |-> "idle"]
  /\ wjob = [w \in Worker |-> NoVideo]
  /\ wattempt = [w \in Worker |-> 1]
  /\ werror = {}
  /\ wsource = [w \in Worker |-> "raw"]
  /\ purge = [v \in Video |-> "none"]
  /\ signalled = [v \in Video |-> {}]
  /\ orphans = [v \in Video |-> 0]
  /\ wiped = {}
  /\ lost = {}

----------------------------------------------------------------------------
(* The client. *)

\* init_upload: insert the DRAFT row and hand out a presigned PUT URL.
InitUpload(v) ==
  /\ status[v] = "absent"
  /\ status' = [status EXCEPT ![v] = "DRAFT"]
  /\ UNCHANGED <<bucket, deleted, objVars, reqVars, queue, wrkVars, purge,
                 signalled, orphans, wiped, lost>>

\* The client uses the presigned URL, possibly again and possibly late: the
\* URL stays usable until it expires, whatever has become of the row.
ClientPut(v, o) ==
  /\ status[v] # "absent"
  /\ rawObj' = [rawObj EXCEPT ![v] = o]
  /\ UNCHANGED <<rowVars, pubObj, reqVars, queue, wrkVars, purge, signalled,
                 orphans, wiped, lost>>

----------------------------------------------------------------------------
(* confirm_upload.  Every await is a point where others may step in. *)

\* Mutant: lock_exclusive dropped, a plain SELECT.
ConfirmLockWithoutLock(r, v) ==
  /\ rpc[r] = "idle"
  /\ status[v] = "DRAFT"
  /\ rpc' = [rpc EXCEPT ![r] = "locked"]
  /\ rvideo' = [rvideo EXCEPT ![r] = v]
  /\ lockedBy' = [lockedBy EXCEPT ![v] = r]
  /\ UNCHANGED <<rowVars, objVars, queue, wrkVars, purge, signalled, orphans,
                 wiped, lost>>

\* BEGIN; SELECT ... FOR UPDATE.  A missing row (404) and a row that is not
\* DRAFT (202, nothing to do) end the transaction with no effect.
ConfirmLock(r, v) ==
  /\ rpc[r] = "idle"
  /\ lockedBy[v] = NoRequest
  /\ status[v] = "DRAFT"
  /\ rpc' = [rpc EXCEPT ![r] = "locked"]
  /\ rvideo' = [rvideo EXCEPT ![r] = v]
  /\ lockedBy' = [lockedBy EXCEPT ![v] = r]
  /\ UNCHANGED <<rowVars, objVars, queue, wrkVars, purge, signalled, orphans,
                 wiped, lost>>

\* The transaction ends without a commit and releases the lock.
Rollback(r) ==
  /\ rpc' = [rpc EXCEPT ![r] = "idle"]
  /\ rvideo' = [rvideo EXCEPT ![r] = NoVideo]
  /\ lockedBy' = [lockedBy EXCEPT ![rvideo[r]] = NoRequest]

\* get_file_size: the object is missing or its size is off -> 400, rollback.
ConfirmCheckSize(r) ==
  /\ rpc[r] = "locked"
  /\ IF SizeOk(rawObj[rvideo[r]])
       THEN rpc' = [rpc EXCEPT ![r] = "sized"] /\ UNCHANGED <<lockedBy, rvideo>>
       ELSE Rollback(r)
  /\ UNCHANGED <<rowVars, objVars, queue, wrkVars, purge, signalled, orphans,
                 wiped, lost>>

\* read_prefix: no video container signature -> 400, rollback.
ConfirmCheckSignature(r) ==
  /\ rpc[r] = "sized"
  /\ IF LooksLikeSupportedVideoContainer(rawObj[rvideo[r]])
       THEN rpc' = [rpc EXCEPT ![r] = "verified"] /\ UNCHANGED <<lockedBy, rvideo>>
       ELSE Rollback(r)
  /\ UNCHANGED <<rowVars, objVars, queue, wrkVars, purge, signalled, orphans,
                 wiped, lost>>

\* Mutant: the result of push_video_job is ignored, a failed push commits.
ConfirmPushUnchecked(r) ==
  /\ rpc[r] = "verified"
  /\ queue' \in {queue, Append(queue, rvideo[r])}
  /\ rpc' = [rpc EXCEPT ![r] = "pushed"]
  /\ UNCHANGED <<rowVars, objVars, lockedBy, rvideo, wrkVars, purge, signalled,
                 orphans, wiped, lost>>

\* Mutant: the processing signal goes out before the commit.
ConfirmPushAndSignal(r) ==
  /\ rpc[r] = "verified"
  /\ queue' = Append(queue, rvideo[r])
  /\ signalled' = [signalled EXCEPT ![rvideo[r]] = @ \cup {"PROCESSING"}]
  /\ rpc' = [rpc EXCEPT ![r] = "pushed"]
  /\ UNCHANGED <<rowVars, objVars, lockedBy, rvideo, wrkVars, purge, orphans,
                 wiped, lost>>

\* UPDATE ... status = PROCESSING inside the transaction (not visible yet),
\* then LPUSH.  The list is consumed from its other end.
ConfirmPush(r) ==
  /\ rpc[r] = "verified"
  /\ queue' = Append(queue, rvideo[r])
  /\ rpc' = [rpc EXCEPT ![r] = "pushed"]
  /\ UNCHANGED <<rowVars, objVars, lockedBy, rvideo, wrkVars, purge, signalled,
                 orphans, wiped, lost>>

\* COMMIT: the PROCESSING status becomes visible and the lock is released.
ConfirmCommit(r) ==
  /\ rpc[r] = "pushed"
  /\ status' = [status EXCEPT ![rvideo[r]] = "PROCESSING"]
  /\ lockedBy' = [lockedBy EXCEPT ![rvideo[r]] = NoRequest]
  /\ rpc' = [rpc EXCEPT ![r] = "committed"]
  /\ UNCHANGED <<bucket, deleted, objVars, rvideo, queue, wrkVars, purge,
                 signalled, orphans, wiped, lost>>

\* publish_video_status_signal(EVENT_PROCESSING); an error is only logged.
ConfirmSignal(r) ==
  /\ rpc[r] = "committed"
  /\ \/ signalled' = [signalled EXCEPT ![rvideo[r]] = @ \cup {"PROCESSING"}]
     \/ UNCHANGED signalled
  /\ rpc' = [rpc EXCEPT ![r] = "idle"]
  /\ rvideo' = [rvideo EXCEPT ![r] = NoVideo]
  /\ UNCHANGED <<rowVars, objVars, lockedBy, queue, wrkVars, purge, orphans,
                 wiped, lost>>

\* The invocation dies before its COMMIT: a storage, database or Redis error,
\* a client that hung up, an API process that stopped.  Postgres rolls back;
\* a job that was already pushed stays on the list.
ConfirmAbort(r) ==
  /\ rpc[r] \in {"locked", "sized", "verified", "pushed"}
  /\ rpc[r] = "pushed" => orphans[rvideo[r]] < MaxOrphans
  /\ Rollback(r)
  /\ orphans' = IF rpc[r] = "pushed"
                  THEN [orphans EXCEPT ![rvideo[r]] = @ + 1]
                  ELSE orphans
  /\ UNCHANGED <<rowVars, objVars, queue, wrkVars, purge, signalled, wiped, lost>>

----------------------------------------------------------------------------
(* The worker. *)

\* pop_video_job (BRPOP): the job leaves Redis for good.
WorkerPop(w) ==
  /\ wpc[w] = "idle"
  /\ queue # <<>>
  /\ wjob' = [wjob EXCEPT ![w] = Head(queue)]
  /\ queue' = Tail(queue)
  /\ wattempt' = [wattempt EXCEPT ![w] = 1]
  /\ werror' = werror \ {w}
  /\ wpc' = [wpc EXCEPT ![w] = "read"]
  /\ UNCHANGED <<rowVars, objVars, reqVars, wsource, purge, signalled, orphans,
                 wiped, lost>>

\* Mutant: one retry too many.
AttemptFailsOffByOne(w, kind) ==
  /\ werror' = werror \cup {w}
  /\ IF kind = "transient" /\ wattempt[w] <= MaxAttempts
       THEN /\ wattempt' = [wattempt EXCEPT ![w] = @ + 1]
            /\ wpc' = [wpc EXCEPT ![w] = "read"]
       ELSE /\ wpc' = [wpc EXCEPT ![w] = "finish"]
            /\ UNCHANGED wattempt

\* Err(e) out of process_video: remember it; retry a transient error while
\* attempts are left, otherwise leave the loop.
AttemptFails(w, kind) ==
  /\ werror' = werror \cup {w}
  /\ IF kind = "transient" /\ wattempt[w] < MaxAttempts
       THEN /\ wattempt' = [wattempt EXCEPT ![w] = @ + 1]
            /\ wpc' = [wpc EXCEPT ![w] = "read"]
       ELSE /\ wpc' = [wpc EXCEPT ![w] = "finish"]
            /\ UNCHANGED wattempt

\* find_by_id: the row gives the bucket to download from.
WorkerRead(w) ==
  /\ wpc[w] = "read"
  /\ \/ /\ status[wjob[w]] \in Live
        /\ wsource' = [wsource EXCEPT ![w] = bucket[wjob[w]]]
        /\ wpc' = [wpc EXCEPT ![w] = "media"]
        /\ UNCHANGED <<wattempt, werror>>
     \/ \* VIDEO_NOT_FOUND is permanent
        /\ status[wjob[w]] \notin Live
        /\ AttemptFails(w, "permanent")
        /\ UNCHANGED wsource
     \/ \* DB_READ_FAILED is transient
        /\ AttemptFails(w, "transient")
        /\ UNCHANGED wsource
  /\ UNCHANGED <<rowVars, objVars, reqVars, queue, wjob, purge, signalled,
                 orphans, wiped, lost>>

\* The media found where the row pointed: the raw upload, or the worker's own
\* earlier output, which decodes.
SourceExists(w) ==
  IF wsource[w] = "raw" THEN rawObj[wjob[w]] # "none" ELSE wjob[w] \in pubObj
SourceDecodes(w) ==
  wsource[w] = "raw" => Decodable(rawObj[wjob[w]])

\* Download, ffprobe preflight and transcode fallbacks.
WorkerMedia(w) ==
  /\ wpc[w] = "media"
  /\ \/ /\ SourceExists(w) /\ SourceDecodes(w)
        /\ wpc' = [wpc EXCEPT ![w] = "upload"]
        /\ UNCHANGED <<wattempt, werror>>
     \/ \* INVALID_MEDIA, CORRUPT_INPUT, NO_VIDEO_STREAM, ... are permanent
        /\ SourceExists(w) /\ ~SourceDecodes(w)
        /\ AttemptFails(w, "permanent")
     \/ \* RAW_DOWNLOAD_FAILED (a missing object included) and timeouts
        AttemptFails(w, "transient")
  /\ UNCHANGED <<rowVars, objVars, reqVars, queue, wjob, wsource, purge,
                 signalled, orphans, wiped, lost>>

\* Mutant: an upload error is only logged, as it is for the thumbnail.
WorkerUploadUnchecked(w) ==
  /\ wpc[w] = "upload"
  /\ pubObj' \in {pubObj, pubObj \cup {wjob[w]}}
  /\ wpc' = [wpc EXCEPT ![w] = "write"]
  /\ UNCHANGED <<rowVars, rawObj, reqVars, queue, wjob, wattempt, werror, wsource,
                 purge, signalled, orphans, wiped, lost>>

\* upload_file to the public bucket.
WorkerUpload(w) ==
  /\ wpc[w] = "upload"
  /\ \/ /\ pubObj' = pubObj \cup {wjob[w]}
        /\ wpc' = [wpc EXCEPT ![w] = "write"]
        /\ UNCHANGED <<wattempt, werror>>
     \/ \* PUBLISHED_UPLOAD_FAILED
        /\ AttemptFails(w, "transient")
        /\ UNCHANGED pubObj
  /\ UNCHANGED <<rowVars, rawObj, reqVars, queue, wjob, wsource, purge,
                 signalled, orphans, wiped, lost>>

\* Mutant: the write does not wait for the row lock.
WorkerWriteThroughLock(w) ==
  /\ wpc[w] = "write"
  /\ status[wjob[w]] \in Live
  /\ status' = [status EXCEPT ![wjob[w]] = "PUBLISHED"]
  /\ bucket' = [bucket EXCEPT ![wjob[w]] = "public"]
  /\ wpc' = [wpc EXCEPT ![w] = "signal"]
  /\ UNCHANGED <<deleted, objVars, reqVars, queue, wjob, wattempt, werror, wsource,
                 purge, signalled, orphans, wiped, lost>>

\* UPDATE ... status = PUBLISHED, s3_bucket = videos.  The statement waits for
\* the row lock; a row that is gone is a DB_WRITE_FAILED.
WorkerWrite(w) ==
  /\ wpc[w] = "write"
  /\ lockedBy[wjob[w]] = NoRequest
  /\ \/ /\ status[wjob[w]] \in Live
        /\ status' = [status EXCEPT ![wjob[w]] = "PUBLISHED"]
        /\ bucket' = [bucket EXCEPT ![wjob[w]] = "public"]
        /\ wpc' = [wpc EXCEPT ![w] = "signal"]
        /\ UNCHANGED <<wattempt, werror>>
     \/ /\ AttemptFails(w, "transient")
        /\ UNCHANGED <<status, bucket>>
  /\ UNCHANGED <<deleted, objVars, reqVars, queue, wjob, wsource, purge,
                 signalled, orphans, wiped, lost>>

\* Publish video.status.published (an error is only logged) and return Ok.
WorkerSignal(w) ==
  /\ wpc[w] = "signal"
  /\ \/ signalled' = [signalled EXCEPT ![wjob[w]] = @ \cup {"PUBLISHED"}]
     \/ UNCHANGED signalled
  /\ wpc' = [wpc EXCEPT ![w] = "finish"]
  /\ UNCHANGED <<rowVars, objVars, reqVars, queue, wjob, wattempt, werror,
                 wsource, purge, orphans, wiped, lost>>

\* if let Some(err) = last_error: mark the row FAILED and say so.
WorkerMarkFailed(w) ==
  /\ wpc[w] = "finish" /\ w \in werror
  /\ lockedBy[wjob[w]] = NoRequest
  /\ status[wjob[w]] \in Live
  /\ status' = [status EXCEPT ![wjob[w]] = "FAILED"]
  /\ \/ signalled' = [signalled EXCEPT ![wjob[w]] = @ \cup {"FAILED"}]
     \/ UNCHANGED signalled
  /\ wpc' = [wpc EXCEPT ![w] = "idle"]
  /\ wjob' = [wjob EXCEPT ![w] = NoVideo]
  /\ UNCHANGED <<bucket, deleted, objVars, reqVars, queue, wattempt, werror,
                 wsource, purge, orphans, wiped, lost>>

\* Mutant: the last error is dropped and the row left as it is.
WorkerFinishSilently(w) ==
  /\ wpc[w] = "finish"
  /\ wpc' = [wpc EXCEPT ![w] = "idle"]
  /\ wjob' = [wjob EXCEPT ![w] = NoVideo]
  /\ UNCHANGED <<rowVars, objVars, reqVars, queue, wattempt, werror, wsource,
                 purge, signalled, orphans, wiped, lost>>

\* Nothing to mark: no error was recorded, or the row is gone.
WorkerFinish(w) ==
  /\ wpc[w] = "finish"
  /\ w \notin werror \/ status[wjob[w]] \notin Live
  /\ wpc' = [wpc EXCEPT ![w] = "idle"]
  /\ wjob' = [wjob EXCEPT ![w] = NoVideo]
  /\ UNCHANGED <<rowVars, objVars, reqVars, queue, wattempt, werror, wsource,
                 purge, signalled, orphans, wiped, lost>>

\* The job is gone with the worker: the process stops while it holds the job,
\* or the query or update that should mark the row FAILED itself fails (the
\* error is dropped and the loop goes on to the next job).
WorkerLosesJob(w) ==
  /\ wpc[w] # "idle"
  /\ lost' = lost \cup {wjob[w]}
  /\ wpc' = [wpc EXCEPT ![w] = "idle"]
  /\ wjob' = [wjob EXCEPT ![w] = NoVideo]
  /\ UNCHANGED <<rowVars, objVars, reqVars, queue, wattempt, werror, wsource,
                 purge, signalled, orphans, wiped>>

----------------------------------------------------------------------------
(* Deletion. *)

\* delete_video: set deleted_at unless it is set.
DeleteVideo(v) ==
  /\ status[v] \in Live
  /\ lockedBy[v] = NoRequest
  /\ v \notin deleted
  /\ deleted' = deleted \cup {v}
  /\ UNCHANGED <<status, bucket, objVars, reqVars, queue, wrkVars, purge,
                 signalled, orphans, wiped, lost>>

\* hard_delete_video reads the row and remembers where its object is ...
HardDeleteRead(v) ==
  /\ status[v] \in Live
  /\ purge[v] = "none"
  /\ purge' = [purge EXCEPT ![v] = bucket[v]]
  /\ UNCHANGED <<rowVars, objVars, reqVars, queue, wrkVars, signalled, orphans,
                 wiped, lost>>

\* ... removes that object, or gives up on a storage error ...
HardDeleteObject(v) ==
  /\ purge[v] \in Bucket
  /\ \/ /\ purge' = [purge EXCEPT ![v] = "row"]
        /\ rawObj' = IF purge[v] = "raw" THEN [rawObj EXCEPT ![v] = "none"] ELSE rawObj
        /\ pubObj' = IF purge[v] = "public" THEN pubObj \ {v} ELSE pubObj
        /\ wiped' = wiped \cup {v}
     \/ /\ purge' = [purge EXCEPT ![v] = "none"]
        /\ UNCHANGED <<objVars, wiped>>
  /\ UNCHANGED <<rowVars, reqVars, queue, wrkVars, signalled, orphans, lost>>

\* ... and deletes the row, or fails and leaves a row without an object.
HardDeleteRow(v) ==
  /\ purge[v] = "row"
  /\ \/ lockedBy[v] = NoRequest /\ status' = [status EXCEPT ![v] = "purged"]
     \/ UNCHANGED status
  /\ purge' = [purge EXCEPT ![v] = "none"]
  /\ UNCHANGED <<bucket, deleted, objVars, reqVars, queue, wrkVars, signalled,
                 orphans, wiped, lost>>

----------------------------------------------------------------------------
ConfirmStep(r) ==
  \/ ConfirmCheckSize(r) \/ ConfirmCheckSignature(r) \/ ConfirmPush(r)
  \/ ConfirmCommit(r) \/ ConfirmSignal(r)

WorkerStep(w) ==
  \/ WorkerPop(w) \/ WorkerRead(w) \/ WorkerMedia(w) \/ WorkerUpload(w)
  \/ WorkerWrite(w) \/ WorkerSignal(w) \/ WorkerMarkFailed(w) \/ WorkerFinish(w)

VideoStep(v) ==
  \/ InitUpload(v) \/ DeleteVideo(v)
  \/ HardDeleteRead(v) \/ HardDeleteObject(v) \/ HardDeleteRow(v)
  \/ \E o \in Upload : ClientPut(v, o)
  \/ \E r \in Request : ConfirmLock(r, v)

Next ==
  \/ \E v \in Video : VideoStep(v)
  \/ \E r \in Request : ConfirmStep(r) \/ ConfirmAbort(r)
  \/ \E w \in Worker : WorkerStep(w) \/ WorkerLosesJob(w)

Spec == Init /\ [][Next]_vars

\* The runtime keeps running a handler until it returns or is cancelled, and
\* the worker's loop never stops while the process lives.
Fairness ==
  /\ \A r \in Request : WF_vars(ConfirmStep(r) \/ ConfirmAbort(r))
  /\ \A w \in Worker : WF_vars(WorkerStep(w))

FairSpec == Spec /\ Fairness
----------------------------------------------------------------------------
(* Properties. *)

HasJob(v) ==
  \/ \E i \in DOMAIN queue : queue[i] = v
  \/ \E w \in Worker : wpc[w] # "idle" /\ wjob[w] = v

\* A published row points at media that exists: the upload of the public copy
\* comes before the row is written, and nothing but a hard delete removes it.
PublishedHasMedia ==
  \A v \in Video :
    status[v] = "PUBLISHED" /\ v \notin wiped => bucket[v] = "public" /\ v \in pubObj

\* A confirmed video is never stranded: while its row says PROCESSING, its job
\* is on the list or in a worker's hands, unless a worker lost it.  This is
\* why confirm_upload pushes before it commits.
NoStrandedVideo ==
  \A v \in Video : status[v] = "PROCESSING" /\ v \notin lost => HasJob(v)

\* However many confirmations of one upload run at once, there is one job for
\* it, unless an invocation died between its push and its commit.
OneJobPerUpload ==
  \A v \in Video : orphans[v] = 0 =>
    /\ \A i, j \in DOMAIN queue : queue[i] = v /\ queue[j] = v => i = j
    /\ \A w, x \in Worker : wjob[w] = v /\ wjob[x] = v => w = x
    /\ \A i \in DOMAIN queue, w \in Worker : ~(queue[i] = v /\ wjob[w] = v)

\* A realtime signal never announces a status that is not committed yet: the
\* row a client reads after the signal is at least as far as the signal says.
SignalsFollowCommits ==
  \A v \in Video :
    /\ signalled[v] # {} => status[v] \notin {"absent", "DRAFT"}
    /\ signalled[v] \cap {"PUBLISHED", "FAILED"} # {}
         => status[v] \in {"PUBLISHED", "FAILED", "purged"}

\* Row, public copy and signals as VideoLifecycle sees them.
Copy == [v \in Video |-> IF v \in wiped THEN "erased" ELSE IF v \in pubObj THEN "stored" ELSE "none"]
Cycle == INSTANCE VideoLifecycle WITH state <- status, copy <- Copy, announced <- signalled

\* Confirmations, workers, retries and deletions of a video add up to the life
\* cycle of VideoLifecycle, whatever overlaps.  In particular an outcome is
\* settled: the commit of a confirmation that was under way when the worker
\* finished never takes the row back to PROCESSING.
Lifecycle == Cycle!Spec

\* Every confirmed video is eventually published, failed or purged, unless the
\* job was lost with a worker.
ConfirmedResolves ==
  \A v \in Video :
    status[v] = "PROCESSING" ~> (status[v] # "PROCESSING" \/ v \in lost)

\* What the comment above the failure branch of the worker says: a video is
\* marked FAILED when all its retries failed, so never once it is published.
FailedOnlyIfAllRetriesFailed ==
  [][\A v \in Video : status[v] = "PUBLISHED" => status'[v] # "FAILED"]_vars
=============================================================================
