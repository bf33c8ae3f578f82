------------------------- MODULE BulkDownloadProofs -------------------------
(***************************************************************************)
(* Proofs about BulkDownload, for any number of jobs, calls, workers and   *)
(* videos.                                                                 *)
(*                                                                         *)
(* The argument.  The worker writes a row without looking at its status,   *)
(* so that a COMPLETED job stays so rests on nobody having the job any     *)
(* more.  A job is somewhere once: with the call that inserted it, in the  *)
(* list or with a worker, and a job that is COMPLETED or not inserted yet  *)
(* is nowhere (OwnerInv).  What a worker has downloaded and stored when it *)
(* completes the row is told by its position (WorkInv); a deleted video    *)
(* stays deleted, so what was gone when the job was taken is never in it.  *)
(***************************************************************************)
EXTENDS BulkDownload, TLAPS

\* A job has one owner at a time; one that is completed, or not there yet, has none.
OwnerInv ==
  /\ \A i, n \in DOMAIN queue : queue[i] = queue[n] => i = n
  /\ \A c, d \in Call : made[c] = made[d] => made[c] = NoJob \/ c = d
  /\ \A v, w \in Worker : wjob[v] = wjob[w] => wjob[v] = NoJob \/ v = w
  /\ \A i \in DOMAIN queue : /\ \A c \in Call : queue[i] # made[c]
                             /\ \A w \in Worker : queue[i] # wjob[w]
  /\ \A c \in Call, w \in Worker : made[c] = wjob[w] => made[c] = NoJob
  /\ \A j \in Job : status[j] \in {"none", "COMPLETED"} =>
       /\ \A i \in DOMAIN queue : queue[i] # j
       /\ \A c \in Call : made[c] # j
       /\ \A w \in Worker : wjob[w] # j

\* What a worker's position says about its files, and what a COMPLETED row says.
WorkInv ==
  /\ \A w \in Worker :
       /\ wpc[w] \in {"idle", "taken", "working", "failing"} => wfiles[w] = {}
       /\ wpc[w] \in {"zipping", "writing"} => wfiles[w] # {}
       /\ wpc[w] = "writing" => wjob[w] \in stored
       /\ \A m \in gone[w] : video[m] = "deleted" /\ m \notin wfiles[w]
  /\ \A j \in Job : status[j] = "COMPLETED" => j \in stored /\ zip[j] # {}

Inv == TypeOK /\ OwnerInv /\ WorkInv

----------------------------------------------------------------------------
(* Facts about the job list. *)

\* Taking a job shortens the list by its head and moves the rest up by one.
LEMMA PopFacts ==
  ASSUME NEW q \in Seq(Job), q # <<>>
  PROVE  /\ Head(q) = q[1] /\ q[1] \in Job /\ 1 \in DOMAIN q
         /\ Tail(q) \in Seq(Job)
         /\ \A i \in DOMAIN Tail(q) :
              Tail(q)[i] = q[i + 1] /\ i + 1 \in DOMAIN q /\ i \in Nat \ {0}
  OBVIOUS

\* A pushed job is last and the others keep their places.
LEMMA PushFacts ==
  ASSUME NEW q \in Seq(Job), NEW j \in Job
  PROVE  /\ Append(q, j) \in Seq(Job)
         /\ DOMAIN Append(q, j) = DOMAIN q \cup {Len(q) + 1}
         /\ Len(q) + 1 \notin DOMAIN q
         /\ \A i \in DOMAIN q : Append(q, j)[i] = q[i]
         /\ Append(q, j)[Len(q) + 1] = j
  OBVIOUS

----------------------------------------------------------------------------
(* Types.  The rows, the calls and the workers change in their own steps only. *)

\* The rows keep their types.
LEMMA RowTypeNext == ASSUME TypeOK, [Next]_vars PROVE RowType'
<1> USE DEF TypeOK, RowType, CallType, WorkerType, Active
<1>1. ASSUME NEW j \in Job, NEW ids \in SUBSET Video, NEW k \in Key \cup {NoKey},
             InsertJob(j, ids, k)
      PROVE  RowType'
  BY <1>1 DEF InsertJob
<1>2. ASSUME NEW c \in Call, CallStep(c) PROVE RowType'
  <2>1. UNCHANGED rowVars \/ \E j \in Job : InsertJob(j, asked[c], askedKey[c])
    BY <1>2 DEF CallStep, CreateBegin, CreateCountActive, CreateCountDaily, CreateCheckVideos,
                CreateInsert, CreatePush, CallFails
  <2>2. CASE UNCHANGED rowVars BY <2>2 DEF rowVars
  <2>3. QED BY <1>1, <2>1, <2>2
<1>3. ASSUME NEW j \in Job, NEW ids \in SUBSET Video, NEW k \in Key \cup {NoKey},
             AdminCreate(j, ids, k)
      PROVE  RowType'
  BY <1>1, <1>3 DEF AdminCreate
<1>4. ASSUME NEW w \in Worker, WorkerStep(w) \/ SweepStep(w) \/ WorkerLosesJob(w)
      PROVE  RowType'
  <2>1. CASE WorkerPop(w) \/ WorkerDownload(w) \/ WorkerUpload(w) \/ SweepSelect(w)
             \/ WorkerLosesJob(w)
    <3>1. UNCHANGED rowVars
      BY <2>1 DEF WorkerPop, WorkerDownload, WorkerUpload, SweepSelect, WorkerLosesJob, rowVars
    <3>2. QED BY <3>1 DEF rowVars
  <2>2. CASE WorkerTake(w) BY <2>2 DEF WorkerTake
  <2>3. CASE WorkerWrite(w)
    <3>1. /\ status' \in {status, [status EXCEPT ![wjob[w]] = "COMPLETED"]}
          /\ zip' \in {zip, [zip EXCEPT ![wjob[w]] = wfiles[w]]}
          /\ UNCHANGED <<key, wants, aged, today>>
      BY <2>3 DEF WorkerWrite
    <3>2. status' \in [Job -> Active \cup {"COMPLETED", "FAILED", "none", "deleted"}] BY <3>1
    <3>3. zip' \in [Job -> SUBSET Video]
      <4>1. wfiles[w] \in SUBSET Video OBVIOUS
      <4>2. ASSUME NEW F \in SUBSET Video
            PROVE  [zip EXCEPT ![wjob[w]] = F] \in [Job -> SUBSET Video]
        OBVIOUS
      <4>3. QED BY <3>1, <4>1, <4>2, Zenon
    <3>4. QED BY <3>1, <3>2, <3>3
  <2>4. CASE WorkerMarkFailed(w) BY <2>4 DEF WorkerMarkFailed
  <2>5. ASSUME NEW j \in Job, SweepMark(w, j) PROVE RowType' BY <2>5 DEF SweepMark
  <2>6. QED BY <1>4, <2>1, <2>2, <2>3, <2>4, <2>5 DEF WorkerStep, SweepStep
<1>5. ASSUME NEW j \in Job, HardDelete(j) \/ HourPasses(j) PROVE RowType'
  BY <1>5 DEF HardDelete, HourPasses
<1>6. CASE NewDay BY <1>6 DEF NewDay
<1>7. CASE UNCHANGED rowVars BY <1>7 DEF rowVars
<1>8. QED BY <1>2, <1>3, <1>4, <1>5, <1>6, <1>7 DEF Next, vars, VideoChanges

\* The calls keep their types, and a call has a job exactly while it pushes one.
LEMMA CallTypeNext == ASSUME TypeOK, [Next]_vars PROVE CallType'
<1> USE BulkAssumption DEF TypeOK, CallType
<1>1. ASSUME NEW c \in Call, CallStep(c) PROVE CallType'
  <2>1. ASSUME NEW p \in {"active", "daily", "videos", "insert"}, At(c, p), pc[c] # "push",
               UNCHANGED made, asked' \in [Call -> SUBSET Video],
               askedKey' \in [Call -> Key \cup {NoKey}]
        PROVE  CallType'
    BY <2>1 DEF At
  <2>2. ASSUME Return(c) PROVE CallType'
    BY <2>2 DEF Return, At
  <2>3. ASSUME NEW ids \in SUBSET Video, NEW k \in Key \cup {NoKey}, CreateBegin(c, ids, k)
        PROVE  CallType'
    BY <2>1, <2>3 DEF CreateBegin
  <2>4. CASE CreateCountActive(c) \/ CreateCountDaily(c) \/ CreateCheckVideos(c)
    BY <2>1, <2>2, <2>4 DEF CreateCountActive, CreateCountDaily, CreateCheckVideos
  <2>5. ASSUME NEW j \in Job, CreateInsert(c, j) PROVE CallType'
    BY <2>5 DEF CreateInsert, At
  <2>6. CASE CreatePush(c) \/ CallFails(c)
    BY <2>2, <2>6 DEF CreatePush, CallFails
  <2>7. QED BY <1>1, <2>3, <2>4, <2>5, <2>6 DEF CallStep
<1>2. CASE UNCHANGED callVars BY <1>2 DEF callVars
<1>3. QED BY <1>1, <1>2
  DEF Next, vars, AdminCreate, WorkerStep, SweepStep, WorkerPop, WorkerTake, WorkerDownload,
      WorkerUpload, WorkerWrite, WorkerMarkFailed, SweepSelect, SweepMark, WorkerLosesJob,
      HardDelete, HourPasses, VideoChanges, NewDay

\* The workers keep their types, and a worker has a job exactly while it is at work.
LEMMA WorkerTypeNext == ASSUME TypeOK, [Next]_vars PROVE WorkerType'
<1> USE BulkAssumption DEF TypeOK, WorkerType
<1>1. ASSUME NEW w \in Worker, WorkerStep(w) \/ WorkerLosesJob(w) PROVE WorkerType'
  <2>1. ASSUME Dismiss(w) PROVE WorkerType'
    BY <2>1 DEF Dismiss, WorkerAt
  <2>2. ASSUME AttemptFails(w), wpc[w] # "idle", UNCHANGED wjob PROVE WorkerType'
    <3>1. wattempt' \in [Worker -> 0 .. MaxRetries - 1]
      BY <2>2 DEF AttemptFails
    <3>2. /\ wpc' \in [Worker -> {"idle", "taken", "working", "zipping", "writing", "failing"}]
          /\ wfiles' \in [Worker -> SUBSET Video]
      BY <2>2 DEF AttemptFails, WorkerAt
    <3>3. \A v \in Worker : wpc'[v] # "idle" <=> wjob'[v] # NoJob
      BY <2>2 DEF AttemptFails, WorkerAt
    <3>4. QED BY <2>2, <3>1, <3>2, <3>3
  <2>3. ASSUME NEW p \in {"taken", "working", "zipping", "writing", "failing"}, WorkerAt(w, p),
               wpc[w] # "idle", UNCHANGED <<wjob, wattempt>>, wfiles' \in [Worker -> SUBSET Video]
        PROVE  WorkerType'
    BY <2>3 DEF WorkerAt
  <2>4. CASE WorkerPop(w)
    <3>1. Head(queue) \in Job BY <2>4, PopFacts DEF WorkerPop
    <3>2. QED BY <2>4, <3>1 DEF WorkerPop, WorkerAt
  <2>5. CASE WorkerTake(w) BY <2>1, <2>3, <2>5 DEF WorkerTake
  <2>6. CASE WorkerDownload(w)
    <3>1. CASE AttemptFails(w) BY <2>2, <2>6, <3>1 DEF WorkerDownload
    <3>2. CASE ~AttemptFails(w)
      <4>1. wants[wjob[w]] \subseteq Video BY <2>6 DEF WorkerDownload, RowType
      <4>2. PICK files \in SUBSET Video : wfiles' = [wfiles EXCEPT ![w] = files]
        BY <2>6, <3>2, <4>1 DEF WorkerDownload
      <4>3. QED BY <2>3, <2>6, <3>2, <4>2 DEF WorkerDownload
    <3>3. QED BY <3>1, <3>2
  <2>7. CASE WorkerUpload(w) BY <2>2, <2>3, <2>7 DEF WorkerUpload
  <2>8. CASE WorkerWrite(w) BY <2>1, <2>2, <2>8 DEF WorkerWrite
  <2>9. CASE WorkerMarkFailed(w) BY <2>1, <2>9 DEF WorkerMarkFailed
  <2>10. CASE WorkerLosesJob(w) BY <2>1, <2>10 DEF WorkerLosesJob
  <2>11. QED BY <1>1, <2>4, <2>5, <2>6, <2>7, <2>8, <2>9, <2>10 DEF WorkerStep
<1>2. CASE UNCHANGED workVars BY <1>2 DEF workVars
<1>3. QED BY <1>1, <1>2
  DEF Next, vars, CallStep, CreateBegin, CreateCountActive, CreateCountDaily, CreateCheckVideos,
      CreateInsert, CreatePush, CallFails, AdminCreate, SweepStep, SweepSelect, SweepMark,
      HardDelete, HourPasses, VideoChanges, NewDay

\* Only a push and a pop change the list.
LEMMA QueueFrame ==
  ASSUME [Next]_vars
  PROVE  \/ UNCHANGED queue
         \/ \E c \in Call : CreatePush(c)
         \/ \E j \in Job, ids \in SUBSET Video, k \in Key \cup {NoKey} : AdminCreate(j, ids, k)
         \/ \E w \in Worker : WorkerPop(w)
  BY DEF Next, vars, CallStep, CreateBegin, CreateCountActive, CreateCountDaily,
         CreateCheckVideos, CreateInsert, CallFails, WorkerStep, SweepStep, WorkerTake,
         WorkerDownload, WorkerUpload, WorkerWrite, WorkerMarkFailed, SweepSelect, SweepMark,
         WorkerLosesJob, HardDelete, HourPasses, VideoChanges, NewDay

\* Every variable keeps its type.
LEMMA TypeNext == ASSUME TypeOK, [Next]_vars PROVE TypeOK'
<1> USE BulkAssumption DEF TypeOK
<1>1. queue' \in Seq(Job)
  <2>1. ASSUME NEW c \in Call, CreatePush(c) PROVE queue' \in Seq(Job)
    BY <2>1, PushFacts DEF CreatePush, CallType
  <2>2. ASSUME NEW j \in Job, NEW ids, NEW k, AdminCreate(j, ids, k) PROVE queue' \in Seq(Job)
    BY <2>2, PushFacts DEF AdminCreate
  <2>3. ASSUME NEW w \in Worker, WorkerPop(w) PROVE queue' \in Seq(Job)
    BY <2>3, PopFacts DEF WorkerPop
  <2>4. QED BY <2>1, <2>2, <2>3, QueueFrame
<1>2. RowType' /\ CallType' /\ WorkerType' BY RowTypeNext, CallTypeNext, WorkerTypeNext
<1> DEFINE Rest == /\ stored \subseteq Job
                   /\ video \in [Video -> {"visible", "hidden", "deleted"}]
                   /\ sweep \in [Worker -> SUBSET Job]
                   /\ gone \in [Worker -> SUBSET Video] /\ lost \subseteq Job
<1>3. ASSUME NEW c \in Call, CallStep(c) PROVE Rest'
  BY <1>3 DEF CallStep, CallType, CreateBegin, CreateCountActive, CreateCountDaily,
              CreateCheckVideos, CreateInsert, CreatePush, CallFails
<1>4. ASSUME NEW j \in Job, NEW ids, NEW k, AdminCreate(j, ids, k) PROVE Rest'
  BY <1>4 DEF AdminCreate
<1>5. ASSUME NEW w \in Worker, WorkerStep(w) PROVE Rest'
  <2>1. UNCHANGED <<video, sweep, lost>> /\ stored' \in {stored, stored \cup {wjob[w]}}
    BY <1>5 DEF WorkerStep, WorkerPop, WorkerTake, WorkerDownload, WorkerUpload, WorkerWrite,
                WorkerMarkFailed
  <2>2. stored' \subseteq Job
    BY <1>5, <2>1 DEF WorkerStep, WorkerType, WorkerPop, WorkerTake, WorkerDownload,
                      WorkerUpload, WorkerWrite, WorkerMarkFailed
  <2>3. gone' \in {gone, [gone EXCEPT ![w] = {}],
                   [gone EXCEPT ![w] = {m \in Video : video[m] = "deleted"}]}
    BY <1>5 DEF WorkerStep, WorkerPop, WorkerTake, WorkerDownload, WorkerUpload, WorkerWrite,
                WorkerMarkFailed, Dismiss
  <2>4. gone' \in [Worker -> SUBSET Video] BY <2>3
  <2>5. QED BY <2>1, <2>2, <2>4
<1>6. ASSUME NEW w \in Worker, SweepStep(w) \/ WorkerLosesJob(w) PROVE Rest'
  <2>1. sweep' \in [Worker -> SUBSET Job]
    BY <1>6 DEF SweepStep, SweepSelect, SweepMark, WorkerLosesJob, RowType
  <2>2. gone' \in [Worker -> SUBSET Video]
    BY <1>6 DEF SweepStep, SweepSelect, SweepMark, WorkerLosesJob, Dismiss
  <2>3. UNCHANGED <<stored, video>> /\ lost' \subseteq Job
    BY <1>6 DEF SweepStep, SweepSelect, SweepMark, WorkerLosesJob, WorkerType
  <2>4. QED BY <2>1, <2>2, <2>3
<1>7. ASSUME UNCHANGED <<stored, video, sweep, gone, lost>> PROVE Rest' BY <1>7
<1>8. ASSUME NEW m \in Video, VideoChanges(m) PROVE Rest'
  BY <1>8 DEF VideoChanges
<1>9. Rest' BY <1>3, <1>4, <1>5, <1>6, <1>7, <1>8 DEF Next, vars, NewDay, HardDelete, HourPasses
<1>10. QED BY <1>1, <1>2, <1>9

----------------------------------------------------------------------------
(* One owner at a time. *)

\* Nobody gets a job, and no job that somebody has is completed.
LEMMA Releases ==
  ASSUME TypeOK, OwnerInv, queue' = queue,
         \A c \in Call : made'[c] \in {made[c], NoJob},
         \A w \in Worker : wjob'[w] \in {wjob[w], NoJob},
         \A j \in Job : status'[j] \in {"none", "COMPLETED"} =>
           \/ status'[j] = status[j]
           \/ \E w \in Worker : wjob[w] = j /\ wjob'[w] = NoJob
  PROVE  OwnerInv'
<1> USE BulkAssumption DEF TypeOK, CallType, WorkerType
<1>1. /\ \A i, n \in DOMAIN queue' : queue'[i] = queue'[n] => i = n
      /\ \A c, d \in Call : made'[c] = made'[d] => made'[c] = NoJob \/ c = d
      /\ \A v, w \in Worker : wjob'[v] = wjob'[w] => wjob'[v] = NoJob \/ v = w
  BY DEF OwnerInv
<1>2. \A i \in DOMAIN queue : queue[i] \in Job OBVIOUS
<1>3. /\ \A i \in DOMAIN queue' : /\ \A c \in Call : queue'[i] # made'[c]
                                  /\ \A w \in Worker : queue'[i] # wjob'[w]
      /\ \A c \in Call, w \in Worker : made'[c] = wjob'[w] => made'[c] = NoJob
  BY <1>2 DEF OwnerInv
<1>4. ASSUME NEW j \in Job, status'[j] \in {"none", "COMPLETED"}
      PROVE  /\ \A i \in DOMAIN queue' : queue'[i] # j
             /\ \A c \in Call : made'[c] # j
             /\ \A w \in Worker : wjob'[w] # j
  <2>1. CASE status'[j] = status[j]
    <3>1. /\ \A i \in DOMAIN queue : queue[i] # j
          /\ \A c \in Call : made[c] # j
          /\ \A w \in Worker : wjob[w] # j
      BY <1>4, <2>1 DEF OwnerInv
    <3>2. QED BY <3>1
  <2>2. ASSUME NEW v \in Worker, wjob[v] = j, wjob'[v] = NoJob
        PROVE  /\ \A i \in DOMAIN queue' : queue'[i] # j
               /\ \A c \in Call : made'[c] # j
               /\ \A w \in Worker : wjob'[w] # j
    <3>1. /\ \A i \in DOMAIN queue : queue[i] # j
          /\ \A c \in Call : made[c] # j
          /\ \A w \in Worker \ {v} : wjob[w] # j
      BY <2>2 DEF OwnerInv
    <3>2. QED BY <2>2, <3>1
  <2>3. QED BY <1>4, <2>1, <2>2
<1>5. QED BY <1>1, <1>3, <1>4 DEF OwnerInv

\* A job that was in nobody's hands but a call's is pushed, and the call lets go of it.
LEMMA Pushes ==
  ASSUME TypeOK, OwnerInv, NEW j \in Job, queue' = Append(queue, j), wjob' = wjob,
         \A i \in DOMAIN queue : queue[i] # j,
         \A w \in Worker : wjob[w] # j,
         \A c \in Call : made'[c] \in {made[c], NoJob} /\ made'[c] # j,
         status'[j] \notin {"none", "COMPLETED"},
         \A n \in Job \ {j} : status'[n] = status[n]
  PROVE  OwnerInv'
<1> USE BulkAssumption DEF TypeOK, CallType, WorkerType
<1> DEFINE q == queue'
<1>1. /\ DOMAIN q = DOMAIN queue \cup {Len(queue) + 1}
      /\ Len(queue) + 1 \notin DOMAIN queue
      /\ \A i \in DOMAIN queue : q[i] = queue[i]
      /\ q[Len(queue) + 1] = j
  BY PushFacts
<1> HIDE DEF q
<1>2. \A i, n \in DOMAIN q : q[i] = q[n] => i = n
  BY <1>1 DEF OwnerInv
<1>3. /\ \A c, d \in Call : made'[c] = made'[d] => made'[c] = NoJob \/ c = d
      /\ \A v, w \in Worker : wjob'[v] = wjob'[w] => wjob'[v] = NoJob \/ v = w
      /\ \A c \in Call, w \in Worker : made'[c] = wjob'[w] => made'[c] = NoJob
  BY DEF OwnerInv
<1>4. \A i \in DOMAIN q : q[i] \in Job
  BY <1>1
<1>5. \A i \in DOMAIN q : /\ \A c \in Call : q[i] # made'[c]
                          /\ \A w \in Worker : q[i] # wjob'[w]
  BY <1>1, <1>4 DEF OwnerInv
<1>6. ASSUME NEW n \in Job, status'[n] \in {"none", "COMPLETED"}
      PROVE  /\ \A i \in DOMAIN q : q[i] # n
             /\ \A c \in Call : made'[c] # n
             /\ \A w \in Worker : wjob'[w] # n
  <2>1. /\ n # j
        /\ \A i \in DOMAIN queue : queue[i] # n
        /\ \A c \in Call : made[c] # n
        /\ \A w \in Worker : wjob[w] # n
    BY <1>6 DEF OwnerInv
  <2>2. QED BY <1>1, <2>1
<1>7. QED BY <1>2, <1>3, <1>5, <1>6 DEF OwnerInv, q

\* Whatever happens, a job has one owner, and one that is completed has none.
LEMMA OwnerNext == ASSUME TypeOK, OwnerInv, [Next]_vars PROVE OwnerInv'
<1> USE BulkAssumption DEF TypeOK, RowType, CallType, WorkerType
<1>1. CASE UNCHANGED <<status, queue, made, wjob>>
  BY <1>1, Releases
<1>2. ASSUME NEW c \in Call, CallStep(c) PROVE OwnerInv'
  <2>1. CASE /\ UNCHANGED <<status, queue, wjob>>
             /\ made' \in {made, [made EXCEPT ![c] = NoJob]}
    BY <2>1, Releases
  <2>2. ASSUME NEW j \in Job, CreateInsert(c, j) PROVE OwnerInv'
    <3>1. /\ status[j] = "none" /\ made[c] = NoJob
          /\ queue' = queue /\ wjob' = wjob
          /\ status' = [status EXCEPT ![j] = "PENDING"]
          /\ made' = [made EXCEPT ![c] = j]
      BY <2>2 DEF CreateInsert, InsertJob, workVars
    <3>2. QED BY <3>1 DEF OwnerInv
  <2>3. CASE CreatePush(c)
    <3>1. /\ made[c] \in Job /\ made' = [made EXCEPT ![c] = NoJob]
          /\ status' = status /\ wjob' = wjob
          /\ queue' \in {queue, Append(queue, made[c])}
      BY <2>3 DEF CreatePush, Return, rowVars, workVars
    <3>2. CASE queue' = queue BY <2>1, <3>1, <3>2
    <3>3. CASE queue' = Append(queue, made[c])
      <4> DEFINE j == made[c]
      <4>1. /\ \A i \in DOMAIN queue : queue[i] # j
            /\ \A w \in Worker : wjob[w] # j
            /\ \A d \in Call : made'[d] \in {made[d], NoJob} /\ made'[d] # j
            /\ status[j] \notin {"none", "COMPLETED"}
        BY <3>1 DEF OwnerInv
      <4> HIDE DEF j
      <4>2. QED BY <3>1, <3>3, <4>1, Pushes DEF j
    <3>4. QED BY <3>1, <3>2, <3>3
  <2>4. QED BY <1>2, <2>1, <2>2, <2>3
    DEF CallStep, CreateBegin, CreateCountActive, CreateCountDaily, CreateCheckVideos, CallFails,
        Return, rowVars, workVars
<1>3. ASSUME NEW j \in Job, NEW ids, NEW k, AdminCreate(j, ids, k) PROVE OwnerInv'
  <2>1. /\ status[j] = "none" /\ made' = made /\ wjob' = wjob
        /\ status' = [status EXCEPT ![j] = "PENDING"]
        /\ queue' \in {queue, Append(queue, j)}
    BY <1>3 DEF AdminCreate, InsertJob, callVars, workVars
  <2>2. CASE queue' = queue BY <2>1, <2>2, Releases
  <2>3. CASE queue' = Append(queue, j)
    <3>1. /\ \A i \in DOMAIN queue : queue[i] # j
          /\ \A w \in Worker : wjob[w] # j
          /\ \A d \in Call : made[d] # j
      BY <2>1 DEF OwnerInv
    <3>2. QED BY <2>1, <2>3, <3>1, Pushes
  <2>4. QED BY <2>1, <2>2, <2>3
<1>4. ASSUME NEW w \in Worker, WorkerStep(w) \/ WorkerLosesJob(w) PROVE OwnerInv'
  <2>1. CASE WorkerPop(w)
    <3>1. /\ queue # <<>> /\ queue' = Tail(queue) /\ wjob' = [wjob EXCEPT ![w] = Head(queue)]
          /\ status' = status /\ made' = made
      BY <2>1 DEF WorkerPop, rowVars, callVars
    <3> DEFINE q == queue'
    <3>2. /\ Head(queue) = queue[1] /\ queue[1] \in Job /\ 1 \in DOMAIN queue
          /\ \A i \in DOMAIN q : q[i] = queue[i + 1] /\ i + 1 \in DOMAIN queue /\ i \in Nat \ {0}
      BY <3>1, PopFacts
    <3> HIDE DEF q
    <3>3. \A i, n \in DOMAIN q : q[i] = q[n] => i = n
      BY <3>2 DEF OwnerInv
    <3>4. \A i \in DOMAIN q : q[i] # queue[1]
      BY <3>2 DEF OwnerInv
    <3>5. \A v \in Worker : wjob'[v] = IF v = w THEN queue[1] ELSE wjob[v]
      BY <3>1, <3>2
    <3>6. \A v \in Worker : wjob[v] # queue[1]
      BY <3>2 DEF OwnerInv
    <3>7. \A u, v \in Worker : wjob'[u] = wjob'[v] => wjob'[u] = NoJob \/ u = v
      BY <3>5, <3>6 DEF OwnerInv
    <3>8. \A i \in DOMAIN q : /\ \A c \in Call : q[i] # made'[c]
                              /\ \A v \in Worker : q[i] # wjob'[v]
      BY <3>1, <3>2, <3>4, <3>5 DEF OwnerInv
    <3>9. \A c \in Call, v \in Worker : made'[c] = wjob'[v] => made'[c] = NoJob
      BY <3>1, <3>2, <3>5 DEF OwnerInv
    <3>10. ASSUME NEW j \in Job, status'[j] \in {"none", "COMPLETED"}
           PROVE  /\ \A i \in DOMAIN q : q[i] # j
                  /\ \A c \in Call : made'[c] # j
                  /\ \A v \in Worker : wjob'[v] # j
      BY <3>1, <3>2, <3>5, <3>10 DEF OwnerInv
    <3>11. QED BY <3>1, <3>3, <3>7, <3>8, <3>9, <3>10 DEF OwnerInv, q
  <2>2. CASE WorkerTake(w)
    BY <2>2, Releases DEF WorkerTake, Dismiss, callVars
  <2>3. CASE WorkerDownload(w) \/ WorkerUpload(w)
    BY <2>3, Releases DEF WorkerDownload, WorkerUpload, callVars
  <2>4. CASE WorkerWrite(w)
    BY <2>4, Releases DEF WorkerWrite, Dismiss, callVars
  <2>5. CASE WorkerMarkFailed(w)
    BY <2>5, Releases DEF WorkerMarkFailed, Dismiss, callVars
  <2>6. CASE WorkerLosesJob(w)
    BY <2>6, Releases DEF WorkerLosesJob, Dismiss, rowVars, callVars
  <2>7. QED BY <1>4, <2>1, <2>2, <2>3, <2>4, <2>5, <2>6 DEF WorkerStep
<1>5. ASSUME NEW w \in Worker, NEW j \in Job, SweepMark(w, j) PROVE OwnerInv'
  BY <1>5, Releases DEF SweepMark, callVars, workVars
<1>6. ASSUME NEW j \in Job, HardDelete(j) PROVE OwnerInv'
  BY <1>6, Releases DEF HardDelete, callVars, workVars
<1>7. QED BY <1>1, <1>2, <1>3, <1>4, <1>5, <1>6
  DEF Next, vars, SweepStep, SweepSelect, HourPasses, VideoChanges, NewDay, rowVars, callVars,
      workVars

----------------------------------------------------------------------------
(* What is in the archive. *)

\* A worker's position tells what it has, and only a stored archive is completed.
LEMMA WorkNext == ASSUME TypeOK, WorkInv, [Next]_vars PROVE WorkInv'
<1> USE BulkAssumption DEF TypeOK, RowType, WorkerType
<1>1. CASE UNCHANGED <<status, zip, stored, video, workVars, gone>>
  BY <1>1 DEF WorkInv, workVars
<1>2. ASSUME NEW j \in Job, status' = [status EXCEPT ![j] = "PENDING"],
             UNCHANGED <<zip, stored, video, workVars, gone>>
      PROVE  WorkInv'
  BY <1>2 DEF WorkInv, workVars
<1>3. ASSUME NEW c \in Call, CallStep(c) PROVE WorkInv'
  BY <1>1, <1>2, <1>3
  DEF CallStep, CreateBegin, CreateCountActive, CreateCountDaily, CreateCheckVideos, CreateInsert,
      InsertJob, CreatePush, CallFails, rowVars
<1>4. ASSUME NEW j \in Job, NEW ids, NEW k, AdminCreate(j, ids, k) PROVE WorkInv'
  BY <1>2, <1>4 DEF AdminCreate, InsertJob
<1>5. ASSUME NEW w \in Worker, WorkerStep(w) \/ WorkerLosesJob(w) PROVE WorkInv'
  <2> USE DEF WorkInv, WorkerAt
  <2>1. ASSUME AttemptFails(w), UNCHANGED <<status, zip, stored, video, wjob, gone>>
        PROVE  WorkInv'
    BY <2>1 DEF AttemptFails
  <2>2. CASE WorkerPop(w)
    <3>1. /\ wpc[w] = "idle" /\ wpc'[w] = "taken"
          /\ \A v \in Worker \ {w} : wpc'[v] = wpc[v] /\ wjob'[v] = wjob[v]
      BY <2>2 DEF WorkerPop
    <3>2. UNCHANGED <<status, zip, stored, video, wfiles, gone>>
      BY <2>2 DEF WorkerPop, rowVars
    <3>3. QED BY <3>1, <3>2
  <2>3. CASE WorkerTake(w)
    <3>1. CASE Dismiss(w) /\ UNCHANGED <<status, zip, stored, video>>
      BY <3>1 DEF Dismiss
    <3>2. CASE /\ status' = [status EXCEPT ![wjob[w]] = "PROCESSING"]
               /\ gone' = [gone EXCEPT ![w] = {m \in Video : video[m] = "deleted"}]
               /\ WorkerAt(w, "working") /\ wpc[w] = "taken"
               /\ UNCHANGED <<zip, stored, video, wjob, wfiles>>
      <4>1. \A j \in Job : status'[j] = "COMPLETED" => status[j] = "COMPLETED"
        BY <3>2
      <4>2. /\ wpc'[w] = "working" /\ wfiles[w] = {}
            /\ \A m \in gone'[w] : video[m] = "deleted"
            /\ \A v \in Worker \ {w} : wpc'[v] = wpc[v] /\ gone'[v] = gone[v]
        BY <3>2
      <4>3. QED BY <3>2, <4>1, <4>2
    <3>3. QED BY <2>3, <3>1, <3>2 DEF WorkerTake
  <2>4. CASE WorkerDownload(w)
    <3>1. CASE AttemptFails(w) BY <2>1, <2>4, <3>1 DEF WorkerDownload
    <3>2. CASE ~AttemptFails(w)
      <4>1. PICK files \in (SUBSET {m \in wants[wjob[w]] : video[m] # "deleted"}) \ {{}} :
              wfiles' = [wfiles EXCEPT ![w] = files] /\ WorkerAt(w, "zipping")
        BY <2>4, <3>2, Zenon DEF WorkerDownload
      <4>2. files # {} /\ \A m \in files : video[m] # "deleted" OBVIOUS
      <4>3. UNCHANGED <<status, zip, stored, video, wjob, gone>> BY <2>4 DEF WorkerDownload
      <4>4. QED BY <4>1, <4>2, <4>3
    <3>3. QED BY <3>1, <3>2
  <2>5. CASE WorkerUpload(w)
    <3>1. CASE AttemptFails(w) /\ stored' = stored BY <2>1, <2>5, <3>1 DEF WorkerUpload
    <3>2. CASE ~(AttemptFails(w) /\ stored' = stored) BY <2>5, <3>2 DEF WorkerUpload
    <3>3. QED BY <3>1, <3>2
  <2>6. CASE WorkerWrite(w)
    <3>1. CASE AttemptFails(w) /\ UNCHANGED <<status, zip, wjob, gone>>
      BY <2>1, <2>6, <3>1 DEF WorkerWrite
    <3>2. CASE ~(AttemptFails(w) /\ UNCHANGED <<status, zip, wjob, gone>>)
      BY <2>6, <3>2 DEF WorkerWrite, Dismiss
    <3>3. QED BY <3>1, <3>2
  <2>7. CASE WorkerMarkFailed(w) BY <2>7 DEF WorkerMarkFailed, Dismiss
  <2>8. CASE WorkerLosesJob(w) BY <2>8 DEF WorkerLosesJob, Dismiss, rowVars
  <2>9. QED BY <1>5, <2>2, <2>3, <2>4, <2>5, <2>6, <2>7, <2>8 DEF WorkerStep
<1>6. ASSUME NEW w \in Worker, NEW j \in Job, SweepMark(w, j) PROVE WorkInv'
  BY <1>6 DEF SweepMark, workVars, WorkInv
<1>7. ASSUME NEW j \in Job, HardDelete(j) PROVE WorkInv'
  BY <1>7 DEF HardDelete, workVars, WorkInv
<1>8. ASSUME NEW m \in Video, VideoChanges(m) PROVE WorkInv'
  BY <1>8 DEF VideoChanges, rowVars, workVars, WorkInv
<1>9. QED BY <1>1, <1>3, <1>4, <1>5, <1>6, <1>7, <1>8
  DEF Next, vars, SweepStep, SweepSelect, HourPasses, NewDay, rowVars

----------------------------------------------------------------------------
(* The theorems. *)

\* The invariant of bulk downloads holds in every state.
THEOREM BulkInvariant == Spec => []Inv
<1>1. Init => Inv
  <2> SUFFICES ASSUME Init PROVE Inv OBVIOUS
  <2>1. RowType /\ CallType /\ WorkerType
    BY BulkAssumption DEF Init, RowType, CallType, WorkerType, Active
  <2>2. TypeOK BY <2>1 DEF Init, TypeOK
  <2>3. OwnerInv BY BulkAssumption DEF Init, OwnerInv
  <2>4. WorkInv BY DEF Init, WorkInv
  <2>5. QED BY <2>2, <2>3, <2>4 DEF Inv
<1>2. Inv /\ [Next]_vars => Inv' BY TypeNext, OwnerNext, WorkNext DEF Inv
<1>3. QED BY <1>1, <1>2, PTL DEF Spec

\* Every variable keeps its type, and whoever is at work on a job has one.
THEOREM TypeCorrect == Spec => []TypeOK
<1>1. Inv => TypeOK BY DEF Inv
<1>2. QED BY <1>1, BulkInvariant, PTL

\* A COMPLETED row has a stored archive with something in it, and no worker
\* holds a video that was deleted before it took the job.
THEOREM ArchivesAreRight == Spec => []ArchiveIsRight
<1>1. Inv => ArchiveIsRight BY DEF Inv, WorkInv, TypeOK, ArchiveIsRight
<1>2. QED BY <1>1, BulkInvariant, PTL

\* A COMPLETED row is left so by everybody but an administrator's deletion and
\* a clean-up that selected it while it was PENDING.
THEOREM CompletedIsKept == Spec => CompletedStays
<1> DEFINE
  Kept == \A j \in Job : status[j] = "COMPLETED" /\ status'[j] # "COMPLETED"
            => status'[j] = "deleted" \/ \E w \in Worker : j \in sweep[w]
<1>1. Inv /\ [Next]_vars => [Kept]_vars
  <2> SUFFICES ASSUME Inv, Next, NEW j \in Job, status[j] = "COMPLETED", status'[j] # "COMPLETED"
               PROVE  status'[j] = "deleted" \/ \E w \in Worker : j \in sweep[w]
    OBVIOUS
  <2> USE DEF Inv, TypeOK, RowType, WorkerType
  <2>1. \A w \in Worker : wjob[w] # j BY DEF OwnerInv
  <2>2. ASSUME NEW c \in Call, CallStep(c) PROVE FALSE
    BY <2>2 DEF CallStep, CreateBegin, CreateCountActive, CreateCountDaily, CreateCheckVideos,
                CreateInsert, InsertJob, CreatePush, CallFails, rowVars
  <2>3. ASSUME NEW i \in Job, NEW ids, NEW k, AdminCreate(i, ids, k) PROVE FALSE
    BY <2>3 DEF AdminCreate, InsertJob
  <2>4. ASSUME NEW w \in Worker, WorkerStep(w) \/ WorkerLosesJob(w) PROVE FALSE
    BY <2>1, <2>4 DEF WorkerStep, WorkerPop, WorkerTake, WorkerDownload, WorkerUpload,
                      WorkerWrite, WorkerMarkFailed, WorkerLosesJob, rowVars
  <2>5. ASSUME NEW w \in Worker, SweepStep(w) PROVE j \in sweep[w]
    BY <2>5 DEF SweepStep, SweepSelect, SweepMark, rowVars
  <2>6. ASSUME NEW i \in Job, HardDelete(i) \/ HourPasses(i) PROVE status'[j] = "deleted"
    BY <2>6 DEF HardDelete, HourPasses
  <2>7. QED BY <2>2, <2>3, <2>4, <2>5, <2>6 DEF Next, VideoChanges, NewDay, rowVars
<1>2. QED BY <1>1, BulkInvariant, PTL DEF Spec, CompletedStays
=============================================================================
