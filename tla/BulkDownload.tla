---------------------------- MODULE BulkDownload ----------------------------
(***************************************************************************)
(* Bulk downloads of one user: POST /videos/download/bulk writes a job row *)
(* and pushes it on a Redis list; in each worker process one task takes    *)
(* jobs from the list, zips the videos and completes the row, and another  *)
(* fails rows that have been PENDING for an hour.                          *)
(*                                                                         *)
(* The worker writes rows without looking at their status, and ActiveModel *)
(* updates write only the columns that were set.  A lookup that hits the   *)
(* idempotency entry in Redis returns the job found and changes nothing;   *)
(* without an entry, or without Redis, only the unique index on the key    *)
(* keeps a second job out.  The entry itself is therefore left out.        *)
(***************************************************************************)
EXTENDS Naturals, Sequences, FiniteSets

CONSTANTS Job, Call, Worker,
          Video,
          Key,                     \* idempotency keys that clients send
          NoJob, NoKey,            \* NoKey: the key was generated, it is unique
          ActiveLimit, DailyLimit, \* 3 and 10 in the code
          MaxRetries               \* 3 in the code

ASSUME BulkAssumption ==
  /\ NoJob \notin Job /\ NoKey \notin Key
  /\ IsFiniteSet(Job) /\ IsFiniteSet(Call)
  /\ ActiveLimit \in Nat /\ DailyLimit \in Nat /\ MaxRetries \in Nat \ {0}

VARIABLES
  status,    \* download_jobs.status; "none" before the insert, "deleted" after
  key,       \* idempotency_key
  wants,     \* video_ids
  zip,       \* partial_manifest.successful, {} until zip_url is set
  aged,      \* jobs created more than an hour ago
  today,     \* jobs created today
  stored,    \* jobs whose archive is in the bucket
  queue,     \* bulk_download_queue, next job first
  video,     \* "visible", "hidden" by moderation, or "deleted"
  pc, asked, askedKey, made,    \* the calls: position, video_ids, key, job
  wpc, wjob, wattempt, wfiles,  \* the workers: position, job, attempt, files
  sweep,     \* stale_jobs of each process's clean-up, as selected
  gone,      \* history: videos deleted before the worker took its job
  lost       \* history: jobs whose queue entry or worker is gone

rowVars == <<status, key, wants, zip, aged, today>>
callVars == <<pc, asked, askedKey, made>>
workVars == <<wpc, wjob, wattempt, wfiles>>
vars == <<rowVars, stored, queue, video, callVars, workVars, sweep, gone, lost>>

Active == {"PENDING", "PROCESSING"}
Exists(j) == status[j] \in Active \cup {"COMPLETED", "FAILED"}
ActiveJobs == {j \in Job : status[j] \in Active}

RowType ==
  /\ status \in [Job -> Active \cup {"COMPLETED", "FAILED", "none", "deleted"}]
  /\ key \in [Job -> Key \cup {NoKey}]
  /\ wants \in [Job -> SUBSET Video] /\ zip \in [Job -> SUBSET Video]
  /\ aged \subseteq Job /\ today \subseteq Job

CallType ==
  /\ pc \in [Call -> {"idle", "active", "daily", "videos", "insert", "push"}]
  /\ asked \in [Call -> SUBSET Video]
  /\ askedKey \in [Call -> Key \cup {NoKey}]
  /\ made \in [Call -> Job \cup {NoJob}]
  /\ \A c \in Call : pc[c] = "push" <=> made[c] # NoJob

WorkerType ==
  /\ wpc \in [Worker -> {"idle", "taken", "working", "zipping", "writing", "failing"}]
  /\ wjob \in [Worker -> Job \cup {NoJob}]
  /\ wattempt \in [Worker -> 0 .. MaxRetries - 1]
  /\ wfiles \in [Worker -> SUBSET Video]
  /\ \A w \in Worker : wpc[w] # "idle" <=> wjob[w] # NoJob

\* Every variable has its type, and whoever is at work on a job has one.
TypeOK ==
  /\ RowType /\ CallType /\ WorkerType
  /\ stored \subseteq Job /\ queue \in Seq(Job)
  /\ video \in [Video -> {"visible", "hidden", "deleted"}]
  /\ sweep \in [Worker -> SUBSET Job]
  /\ gone \in [Worker -> SUBSET Video] /\ lost \subseteq Job

Init ==
  /\ status = [j \in Job |-> "none"]
  /\ key = [j \in Job |-> NoKey]
  /\ wants = [j \in Job |-> {}] /\ zip = [j \in Job |-> {}]
  /\ aged = {} /\ today = {} /\ stored = {} /\ queue = <<>>
  /\ video = [m \in Video |-> "visible"]
  /\ pc = [c \in Call |-> "idle"]
  /\ asked = [c \in Call |-> {}]
  /\ askedKey = [c \in Call |-> NoKey]
  /\ made = [c \in Call |-> NoJob]
  /\ wpc = [w \in Worker |-> "idle"]
  /\ wjob = [w \in Worker |-> NoJob]
  /\ wattempt = [w \in Worker |-> 0]
  /\ wfiles = [w \in Worker |-> {}]
  /\ sweep = [w \in Worker |-> {}]
  /\ gone = [w \in Worker |-> {}] /\ lost = {}

----------------------------------------------------------------------------
(* create_bulk_download *)

At(c, place) == pc' = [pc EXCEPT ![c] = place]

Return(c) ==
  /\ At(c, "idle")
  /\ asked' = [asked EXCEPT ![c] = {}]
  /\ askedKey' = [askedKey EXCEPT ![c] = NoKey]
  /\ made' = [made EXCEPT ![c] = NoJob]

\* One to ten different videos and a key, and no job known to Redis under that
\* key.
CreateBegin(c, ids, k) ==
  /\ pc[c] = "idle"
  /\ ids # {}
  /\ At(c, "active")
  /\ asked' = [asked EXCEPT ![c] = ids]
  /\ askedKey' = [askedKey EXCEPT ![c] = k]
  /\ UNCHANGED <<rowVars, stored, queue, video, made, workVars, sweep, gone, lost>>

\* At most ActiveLimit jobs PENDING or PROCESSING, else 429.
CreateCountActive(c) ==
  /\ pc[c] = "active"
  /\ IF Cardinality(ActiveJobs) < ActiveLimit
       THEN At(c, "daily") /\ UNCHANGED <<asked, askedKey, made>>
       ELSE Return(c)
  /\ UNCHANGED <<rowVars, stored, queue, video, workVars, sweep, gone, lost>>

\* At most DailyLimit jobs today, else 429.
CreateCountDaily(c) ==
  /\ pc[c] = "daily"
  /\ IF Cardinality(today) < DailyLimit
       THEN At(c, "videos") /\ UNCHANGED <<asked, askedKey, made>>
       ELSE Return(c)
  /\ UNCHANGED <<rowVars, stored, queue, video, workVars, sweep, gone, lost>>

\* Checkpoint 1: all videos published and visible, else 400.
CreateCheckVideos(c) ==
  /\ pc[c] = "videos"
  /\ IF \A m \in asked[c] : video[m] = "visible"
       THEN At(c, "insert") /\ UNCHANGED <<asked, askedKey, made>>
       ELSE Return(c)
  /\ UNCHANGED <<rowVars, stored, queue, video, workVars, sweep, gone, lost>>

\* idx_download_jobs_idempotency_key is unique.
KeyTaken(k) == k # NoKey /\ \E j \in Job : Exists(j) /\ key[j] = k

\* INSERT of the PENDING row; it fails when the key is taken.
InsertJob(j, ids, k) ==
  /\ status[j] = "none"
  /\ ~KeyTaken(k)
  /\ status' = [status EXCEPT ![j] = "PENDING"]
  /\ key' = [key EXCEPT ![j] = k]
  /\ wants' = [wants EXCEPT ![j] = ids]
  /\ today' = today \cup {j}
  /\ UNCHANGED <<zip, aged>>

CreateInsert(c, j) ==
  /\ pc[c] = "insert"
  /\ InsertJob(j, asked[c], askedKey[c])
  /\ At(c, "push")
  /\ made' = [made EXCEPT ![c] = j]
  /\ UNCHANGED <<stored, queue, video, asked, askedKey, workVars, sweep, gone, lost>>

\* Mutant: an LPUSH whose answer was lost is repeated.
CreatePushTwice(c) ==
  /\ pc[c] = "push"
  /\ queue' = queue \o <<made[c], made[c]>>
  /\ Return(c)
  /\ UNCHANGED <<rowVars, stored, video, workVars, sweep, gone, lost>>

\* SETEX of the key and LPUSH of the job; errors are ignored.
CreatePush(c) ==
  /\ pc[c] = "push"
  /\ \/ queue' = Append(queue, made[c]) /\ UNCHANGED lost
     \/ lost' = lost \cup {made[c]} /\ UNCHANGED queue
  /\ Return(c)
  /\ UNCHANGED <<rowVars, stored, video, workVars, sweep, gone>>

\* An error answer, or a request that dies; a row that was inserted stays.
CallFails(c) ==
  /\ pc[c] # "idle"
  /\ lost' = lost \cup ({made[c]} \ {NoJob})
  /\ Return(c)
  /\ UNCHANGED <<rowVars, stored, queue, video, workVars, sweep, gone>>

\* as_user_create_bulk_download: no limits, hidden videos allowed.
AdminCreate(j, ids, k) ==
  /\ ids # {}
  /\ \A m \in ids : video[m] # "deleted"
  /\ InsertJob(j, ids, k)
  /\ \/ queue' = Append(queue, j) /\ UNCHANGED lost
     \/ lost' = lost \cup {j} /\ UNCHANGED queue
  /\ UNCHANGED <<stored, video, callVars, workVars, sweep, gone>>

----------------------------------------------------------------------------
(* BulkDownloadWorker *)

WorkerAt(w, place) == wpc' = [wpc EXCEPT ![w] = place]

Dismiss(w) ==
  /\ WorkerAt(w, "idle")
  /\ wjob' = [wjob EXCEPT ![w] = NoJob]
  /\ wattempt' = [wattempt EXCEPT ![w] = 0]
  /\ wfiles' = [wfiles EXCEPT ![w] = {}]
  /\ gone' = [gone EXCEPT ![w] = {}]

\* BRPOP: the job is no longer in Redis.
WorkerPop(w) ==
  /\ wpc[w] = "idle"
  /\ queue # <<>>
  /\ wjob' = [wjob EXCEPT ![w] = Head(queue)]
  /\ queue' = Tail(queue)
  /\ WorkerAt(w, "taken")
  /\ UNCHANGED <<rowVars, stored, video, callVars, wattempt, wfiles, sweep, gone, lost>>

\* The row is read and set to PROCESSING, whatever its status.  Its retry_count
\* is still 0: a job is pushed, and hence taken, once.
WorkerTake(w) ==
  LET j == wjob[w]
  IN /\ wpc[w] = "taken"
     /\ IF ~Exists(j)
          THEN Dismiss(w) /\ UNCHANGED status
          ELSE /\ status' = [status EXCEPT ![j] = "PROCESSING"]
               /\ gone' = [gone EXCEPT ![w] = {m \in Video : video[m] = "deleted"}]
               /\ WorkerAt(w, "working")
               /\ UNCHANGED <<wjob, wattempt, wfiles>>
     /\ UNCHANGED <<key, wants, zip, aged, today, stored, queue, video,
                    callVars, sweep, lost>>

\* Mutant: one attempt too many.
AttemptFailsOffByOne(w) ==
  LET n == wattempt[w] + 1
  IN /\ wfiles' = [wfiles EXCEPT ![w] = {}]
     /\ IF n <= MaxRetries /\ Exists(wjob[w])
          THEN /\ wattempt' = [wattempt EXCEPT ![w] = n]
               /\ WorkerAt(w, "working")
          ELSE WorkerAt(w, "failing") /\ UNCHANGED wattempt

\* Err out of process_job: count the attempt and store it if another one follows;
\* with no row to store it in the loop ends as well.
AttemptFails(w) ==
  LET n == wattempt[w] + 1
  IN /\ wfiles' = [wfiles EXCEPT ![w] = {}]
     /\ IF n < MaxRetries /\ Exists(wjob[w])
          THEN /\ wattempt' = [wattempt EXCEPT ![w] = n]
               /\ WorkerAt(w, "working")
          ELSE WorkerAt(w, "failing") /\ UNCHANGED wattempt

\* Mutant: the videos of the request are taken as they were.
WorkerDownloadUnchecked(w) ==
  /\ wpc[w] = "working"
  /\ \/ \E files \in (SUBSET wants[wjob[w]]) \ {{}} :
          /\ wfiles' = [wfiles EXCEPT ![w] = files]
          /\ WorkerAt(w, "zipping")
          /\ UNCHANGED wattempt
     \/ AttemptFails(w)
  /\ UNCHANGED <<status, key, wants, zip, aged, today, stored, queue, video, callVars,
                 wjob, sweep, gone, lost>>

\* Checkpoint 2: those of the videos that are still published are downloaded,
\* as many as can be; none at all is a failed attempt.
WorkerDownload(w) ==
  /\ wpc[w] = "working"
  /\ \/ \E files \in (SUBSET {m \in wants[wjob[w]] : video[m] # "deleted"}) \ {{}} :
          /\ wfiles' = [wfiles EXCEPT ![w] = files]
          /\ WorkerAt(w, "zipping")
          /\ UNCHANGED wattempt
     \/ AttemptFails(w)
  /\ UNCHANGED <<status, key, wants, zip, aged, today, stored, queue, video, callVars,
                 wjob, sweep, gone, lost>>

\* create_zip and upload.
WorkerUpload(w) ==
  /\ wpc[w] = "zipping"
  /\ \/ /\ stored' = stored \cup {wjob[w]}
        /\ WorkerAt(w, "writing")
        /\ UNCHANGED <<wattempt, wfiles>>
     \/ AttemptFails(w) /\ UNCHANGED stored
  /\ UNCHANGED <<status, key, wants, zip, aged, today, queue, video, callVars, wjob,
                 sweep, gone, lost>>

\* Presign, then set COMPLETED with the manifest.
WorkerWrite(w) ==
  /\ wpc[w] = "writing"
  /\ \/ /\ Exists(wjob[w])
        /\ status' = [status EXCEPT ![wjob[w]] = "COMPLETED"]
        /\ zip' = [zip EXCEPT ![wjob[w]] = wfiles[w]]
        /\ Dismiss(w)
     \/ AttemptFails(w) /\ UNCHANGED <<status, zip, wjob, gone>>
  /\ UNCHANGED <<key, wants, aged, today, stored, queue, video, callVars, sweep, lost>>

\* mark_job_failed after the last attempt.
WorkerMarkFailed(w) ==
  /\ wpc[w] = "failing"
  /\ status' = [status EXCEPT ![wjob[w]] = IF Exists(wjob[w]) THEN "FAILED" ELSE @]
  /\ Dismiss(w)
  /\ UNCHANGED <<key, wants, zip, aged, today, stored, queue, video,
                 callVars, sweep, lost>>

\* The process stops, or a row cannot be read or written outside the retries:
\* nobody has the job any more.
WorkerLosesJob(w) ==
  /\ wpc[w] # "idle"
  /\ lost' = lost \cup {wjob[w]}
  /\ Dismiss(w)
  /\ sweep' \in {sweep, [sweep EXCEPT ![w] = {}]}
  /\ UNCHANGED <<rowVars, stored, queue, video, callVars>>

\* Mutant: the comparison with the cutoff is the wrong way round.
SweepSelectYoung(w) ==
  /\ sweep[w] = {}
  /\ {j \in Job \ aged : status[j] = "PENDING"} # {}
  /\ sweep' = [sweep EXCEPT ![w] = {j \in Job \ aged : status[j] = "PENDING"}]
  /\ UNCHANGED <<rowVars, stored, queue, video, callVars, workVars, gone, lost>>

\* cleanup_stale_jobs selects the jobs PENDING for an hour ...
SweepSelect(w) ==
  /\ sweep[w] = {}
  /\ {j \in aged : status[j] = "PENDING"} # {}
  /\ sweep' = [sweep EXCEPT ![w] = {j \in aged : status[j] = "PENDING"}]
  /\ UNCHANGED <<rowVars, stored, queue, video, callVars, workVars, gone, lost>>

\* ... and marks one after the other FAILED, whatever has happened to it since;
\* an error ends the sweep.
SweepMark(w, j) ==
  /\ j \in sweep[w]
  /\ IF Exists(j)
       THEN /\ status' = [status EXCEPT ![j] = "FAILED"]
            /\ sweep' = [sweep EXCEPT ![w] = @ \ {j}]
       ELSE sweep' = [sweep EXCEPT ![w] = {}] /\ UNCHANGED status
  /\ UNCHANGED <<key, wants, zip, aged, today, stored, queue, video,
                 callVars, workVars, gone, lost>>

----------------------------------------------------------------------------
\* hard_delete_download_job.
HardDelete(j) ==
  /\ Exists(j)
  /\ status' = [status EXCEPT ![j] = "deleted"]
  /\ today' = today \ {j}
  /\ UNCHANGED <<key, wants, zip, aged, stored, queue, video, callVars,
                 workVars, sweep, gone, lost>>

\* A video is hidden, shown again or deleted.
VideoChanges(m) ==
  /\ video[m] # "deleted"
  /\ \E s \in {"visible", "hidden", "deleted"} \ {video[m]} : video' = [video EXCEPT ![m] = s]
  /\ UNCHANGED <<rowVars, stored, queue, callVars, workVars, sweep, gone, lost>>

\* An hour has passed since the insert.
HourPasses(j) ==
  /\ Exists(j) /\ j \notin aged
  /\ aged' = aged \cup {j}
  /\ UNCHANGED <<status, key, wants, zip, today, stored, queue, video,
                 callVars, workVars, sweep, gone, lost>>

\* Midnight UTC.
NewDay ==
  /\ today' = {}
  /\ UNCHANGED <<status, key, wants, zip, aged, stored, queue, video,
                 callVars, workVars, sweep, gone, lost>>

CallStep(c) ==
  \/ \E ids \in SUBSET Video, k \in Key \cup {NoKey} : CreateBegin(c, ids, k)
  \/ CreateCountActive(c) \/ CreateCountDaily(c) \/ CreateCheckVideos(c)
  \/ \E j \in Job : CreateInsert(c, j)
  \/ CreatePush(c) \/ CallFails(c)

WorkerStep(w) ==
  \/ WorkerPop(w) \/ WorkerTake(w) \/ WorkerDownload(w) \/ WorkerUpload(w)
  \/ WorkerWrite(w) \/ WorkerMarkFailed(w)

SweepStep(w) == SweepSelect(w) \/ \E j \in Job : SweepMark(w, j)

Next ==
  \/ \E c \in Call : CallStep(c)
  \/ \E j \in Job, ids \in SUBSET Video, k \in Key \cup {NoKey} : AdminCreate(j, ids, k)
  \/ \E w \in Worker : WorkerStep(w) \/ SweepStep(w) \/ WorkerLosesJob(w)
  \/ \E j \in Job : HardDelete(j) \/ HourPasses(j)
  \/ (\E m \in Video : VideoChanges(m)) \/ NewDay

Spec == Init /\ [][Next]_vars

\* Both tasks of a worker process are endless loops that the runtime polls,
\* and time passes.  The clean-up's own statements are taken to succeed.
Fairness ==
  /\ \A w \in Worker : WF_vars(WorkerStep(w)) /\ WF_vars(SweepStep(w))
  /\ \A j \in Job : WF_vars(HourPasses(j))

FairSpec == Spec /\ Fairness
----------------------------------------------------------------------------
(* Properties. *)

\* A job that says COMPLETED has an archive to download, with something in it,
\* and no archive gets a video that was deleted before the worker took the job.
ArchiveIsRight ==
  /\ \A j \in Job : status[j] = "COMPLETED" => j \in stored /\ zip[j] # {}
  /\ \A w \in Worker : wfiles[w] \cap gone[w] = {}

\* A COMPLETED job is never worked on again.  What can still overwrite it is the
\* clean-up, if it selected the job while it was PENDING.
CompletedStays ==
  [][\A j \in Job : status[j] = "COMPLETED" /\ status'[j] # "COMPLETED"
       => status'[j] = "deleted" \/ \E w \in Worker : j \in sweep[w]]_vars

\* Every job gets an outcome.  None stays PENDING: if the push was lost or nobody
\* takes it, the clean-up fails it.  None stays PROCESSING, unless its worker
\* lost it.
JobsResolve ==
  \A j \in Job :
    /\ status[j] = "PENDING" ~> status[j] # "PENDING"
    /\ status[j] = "PROCESSING" ~> status[j] # "PROCESSING" \/ j \in lost
=============================================================================
