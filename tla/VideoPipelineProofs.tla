------------------------ MODULE VideoPipelineProofs ------------------------
(***************************************************************************)
(* Proofs about VideoPipeline for any number of videos, of concurrent      *)
(* confirmations and of workers.                                           *)
(*                                                                         *)
(* The argument.  A confirmation between its lock and its commit owns the  *)
(* row lock and the row is still DRAFT (LockInv), because every writer of  *)
(* a row waits for the lock.  A worker that is past its write leaves a     *)
(* row with an outcome behind, one that is about to write has uploaded its *)
(* public copy (WorkerInv).  From these two follow the properties of       *)
(* VideoPipeline, each strengthened by what it says about jobs in flight,  *)
(* and that it implements VideoLifecycle, which also needs to know that a  *)
(* hard delete removes the object before the row (CycleInv).               *)
(***************************************************************************)
EXTENDS VideoPipeline, TLAPS

InTxn == {"locked", "sized", "verified", "pushed"}
Settled == {"PUBLISHED", "FAILED", "purged"}

\* The row lock and the open transactions agree, and a locked row is DRAFT.
LockInv ==
  /\ \A r \in Request : rpc[r] \in InTxn =>
       /\ rvideo[r] \in Video
       /\ lockedBy[rvideo[r]] = r
       /\ status[rvideo[r]] = "DRAFT"
  /\ \A r \in Request : rpc[r] = "committed" =>
       rvideo[r] \in Video /\ status[rvideo[r]] \in Settled \cup {"PROCESSING"}

\* What a worker's position says about its job, the row and the public copy.
WorkerInv ==
  \A w \in Worker :
    /\ wpc[w] = "write" => wjob[w] \in pubObj \cup wiped
    /\ wpc[w] = "signal" \/ (wpc[w] = "finish" /\ w \notin werror)
         => status[wjob[w]] \in Settled

----------------------------------------------------------------------------
(* Facts about the job list. *)

\* Popping shortens the list by its head and moves the rest up by one.
LEMMA PopFacts ==
  ASSUME NEW q \in Seq(Video), q # <<>>
  PROVE  /\ Head(q) \in Video
         /\ Head(q) = q[1]
         /\ 1 \in DOMAIN q
         /\ Tail(q) \in Seq(Video)
         /\ DOMAIN q = 1 .. Len(q)
         /\ Len(q) \in Nat \ {0}
         /\ DOMAIN Tail(q) = 1 .. (Len(q) - 1)
         /\ \A i \in DOMAIN Tail(q) : Tail(q)[i] = q[i + 1] /\ i + 1 \in DOMAIN q
  OBVIOUS

\* Pushing appends: the new job is last and the others keep their places.
LEMMA PushFacts ==
  ASSUME NEW q \in Seq(Video), NEW v \in Video
  PROVE  /\ Append(q, v) \in Seq(Video)
         /\ DOMAIN q = 1 .. Len(q)
         /\ Len(q) \in Nat
         /\ DOMAIN Append(q, v) = 1 .. (Len(q) + 1)
         /\ \A i \in DOMAIN q : Append(q, v)[i] = q[i]
         /\ Append(q, v)[Len(q) + 1] = v
  OBVIOUS
----------------------------------------------------------------------------
(* Who changes what: each group of variables changes only in the actions named. *)

\* The video rows change only in the actions that write them.
LEMMA RowFrame ==
  ASSUME [Next]_vars
  PROVE  \/ UNCHANGED rowVars
         \/ \E v \in Video : InitUpload(v) \/ DeleteVideo(v) \/ HardDeleteRow(v)
         \/ \E r \in Request : ConfirmCommit(r)
         \/ \E w \in Worker : WorkerWrite(w) \/ WorkerMarkFailed(w)
  BY DEF vars, Next, VideoStep, ConfirmStep, WorkerStep, HardDeleteRead, HardDeleteObject,
         ClientPut, ConfirmLock, ConfirmCheckSize, ConfirmCheckSignature, ConfirmPush,
         ConfirmSignal, ConfirmAbort, WorkerPop, WorkerRead, WorkerMedia, WorkerUpload,
         WorkerSignal, WorkerFinish, WorkerLosesJob

\* The stored objects change only in uploads and deletes.
LEMMA ObjectFrame ==
  ASSUME [Next]_vars
  PROVE  \/ UNCHANGED objVars
         \/ \E v \in Video : HardDeleteObject(v) \/ \E o \in Upload : ClientPut(v, o)
         \/ \E w \in Worker : WorkerUpload(w)
  BY DEF vars, Next, VideoStep, ConfirmStep, WorkerStep, InitUpload, DeleteVideo,
         HardDeleteRead, HardDeleteRow, ConfirmLock, ConfirmCheckSize,
         ConfirmCheckSignature, ConfirmPush, ConfirmCommit, ConfirmSignal, ConfirmAbort,
         WorkerPop, WorkerRead, WorkerMedia, WorkerWrite, WorkerSignal, WorkerMarkFailed,
         WorkerFinish, WorkerLosesJob

\* The confirmations change only in their own steps.
LEMMA RequestFrame ==
  ASSUME [Next]_vars
  PROVE  \/ UNCHANGED reqVars
         \/ \E r \in Request :
              \/ ConfirmStep(r) \/ ConfirmAbort(r)
              \/ \E v \in Video : ConfirmLock(r, v)
  BY DEF vars, Next, VideoStep, WorkerStep, InitUpload, ClientPut, DeleteVideo,
         HardDeleteRead, HardDeleteObject, HardDeleteRow, WorkerPop, WorkerRead,
         WorkerMedia, WorkerUpload, WorkerWrite, WorkerSignal, WorkerMarkFailed,
         WorkerFinish, WorkerLosesJob

\* The job list changes only in the push of a confirmation and a worker's pop.
LEMMA QueueFrame ==
  ASSUME [Next]_vars
  PROVE  \/ UNCHANGED queue
         \/ \E r \in Request : ConfirmPush(r)
         \/ \E w \in Worker : WorkerPop(w)
  BY DEF vars, Next, VideoStep, ConfirmStep, WorkerStep, InitUpload, ClientPut, DeleteVideo,
         HardDeleteRead, HardDeleteObject, HardDeleteRow, ConfirmLock, ConfirmCheckSize,
         ConfirmCheckSignature, ConfirmCommit, ConfirmSignal, ConfirmAbort, WorkerRead,
         WorkerMedia, WorkerUpload, WorkerWrite, WorkerSignal, WorkerMarkFailed,
         WorkerFinish, WorkerLosesJob

\* The workers change only in their own steps.
LEMMA WorkerFrame ==
  ASSUME [Next]_vars
  PROVE  \/ UNCHANGED wrkVars
         \/ \E w \in Worker : WorkerStep(w) \/ WorkerLosesJob(w)
  BY DEF vars, Next, VideoStep, ConfirmStep, InitUpload, ClientPut, DeleteVideo,
         HardDeleteRead, HardDeleteObject, HardDeleteRow, ConfirmLock, ConfirmCheckSize,
         ConfirmCheckSignature, ConfirmPush, ConfirmCommit, ConfirmSignal, ConfirmAbort

\* Signals, losses and the administrator's state change only in the actions named.
LEMMA OtherFrame ==
  ASSUME [Next]_vars
  PROVE  \/ UNCHANGED <<purge, signalled, orphans, wiped, lost>>
         \/ \E v \in Video : HardDeleteRead(v) \/ HardDeleteObject(v) \/ HardDeleteRow(v)
         \/ \E r \in Request : ConfirmSignal(r) \/ ConfirmAbort(r)
         \/ \E w \in Worker : WorkerSignal(w) \/ WorkerMarkFailed(w) \/ WorkerLosesJob(w)
  BY DEF vars, Next, VideoStep, ConfirmStep, WorkerStep, InitUpload, ClientPut, DeleteVideo,
         ConfirmLock, ConfirmCheckSize, ConfirmCheckSignature, ConfirmPush, ConfirmCommit,
         WorkerPop, WorkerRead, WorkerMedia, WorkerUpload, WorkerWrite, WorkerFinish
----------------------------------------------------------------------------
(* Type correctness. *)

\* The initial state is well typed.
LEMMA TypeInit == Init => TypeOK
<1> SUFFICES ASSUME Init PROVE TypeOK
  OBVIOUS
<1>1. RowType BY DEF Init, RowType, Status, Bucket
<1>2. ObjectType BY DEF Init, ObjectType
<1>3. RequestType BY NullAssumption DEF Init, RequestType
<1>4. queue \in Seq(Video) BY DEF Init
<1>5. WorkerType BY NullAssumption, AttemptsAssumption DEF Init, WorkerType, Bucket
<1>6. OtherType BY OrphansAssumption DEF Init, OtherType
<1>7. QED BY <1>1, <1>2, <1>3, <1>4, <1>5, <1>6 DEF TypeOK

\* A step keeps the types of the rows.
LEMMA RowTypeNext == ASSUME TypeOK, [Next]_vars PROVE RowType'
<1> USE DEF RowType, Status, Live, Bucket, TypeOK
<1>1. CASE UNCHANGED rowVars BY <1>1 DEF rowVars
<1>2. ASSUME NEW v \in Video, InitUpload(v) \/ DeleteVideo(v) \/ HardDeleteRow(v) PROVE RowType'
  BY <1>2 DEF InitUpload, DeleteVideo, HardDeleteRow
<1>3. ASSUME NEW r \in Request, ConfirmCommit(r) PROVE RowType'
  BY <1>3 DEF ConfirmCommit
<1>4. ASSUME NEW w \in Worker, WorkerWrite(w) \/ WorkerMarkFailed(w) PROVE RowType'
  BY <1>4 DEF WorkerWrite, WorkerMarkFailed
<1>5. QED BY <1>1, <1>2, <1>3, <1>4, RowFrame

\* A step keeps the types of the stored objects.
LEMMA ObjectTypeNext == ASSUME TypeOK, [Next]_vars PROVE ObjectType'
<1> USE DEF ObjectType, Upload, TypeOK
<1>1. CASE UNCHANGED objVars BY <1>1 DEF objVars
<1>2. ASSUME NEW v \in Video, HardDeleteObject(v) PROVE ObjectType'
  BY <1>2 DEF HardDeleteObject, objVars
<1>3. ASSUME NEW v \in Video, NEW o \in Upload, ClientPut(v, o) PROVE ObjectType'
  BY <1>3 DEF ClientPut
<1>4. ASSUME NEW w \in Worker, WorkerUpload(w) PROVE ObjectType'
  BY <1>4 DEF WorkerUpload, WorkerType
<1>5. QED BY <1>1, <1>2, <1>3, <1>4, ObjectFrame

\* A step keeps the types of the confirmations.
LEMMA RequestTypeNext == ASSUME TypeOK, [Next]_vars PROVE RequestType'
<1> USE NullAssumption DEF RequestType, TypeOK
<1>1. CASE UNCHANGED reqVars BY <1>1 DEF reqVars
<1>2. ASSUME NEW r \in Request, NEW v \in Video, ConfirmLock(r, v) PROVE RequestType'
  BY <1>2 DEF ConfirmLock
<1>3. ASSUME NEW r \in Request, Rollback(r) PROVE RequestType'
  BY <1>3 DEF Rollback
<1>4. ASSUME NEW r \in Request, ConfirmStep(r) PROVE RequestType'
  <2>1. CASE ConfirmCheckSize(r) BY <2>1, <1>3 DEF ConfirmCheckSize
  <2>2. CASE ConfirmCheckSignature(r) BY <2>2, <1>3 DEF ConfirmCheckSignature
  <2>3. CASE ConfirmPush(r) BY <2>3 DEF ConfirmPush
  <2>4. CASE ConfirmCommit(r) BY <2>4 DEF ConfirmCommit
  <2>5. CASE ConfirmSignal(r) BY <2>5 DEF ConfirmSignal
  <2>6. QED BY <1>4, <2>1, <2>2, <2>3, <2>4, <2>5 DEF ConfirmStep
<1>5. ASSUME NEW r \in Request, ConfirmAbort(r) PROVE RequestType'
  BY <1>3, <1>5 DEF ConfirmAbort
<1>6. QED BY <1>1, <1>2, <1>4, <1>5, RequestFrame

\* A step keeps the job list a sequence of videos.
LEMMA QueueTypeNext == ASSUME TypeOK, [Next]_vars PROVE queue' \in Seq(Video)
<1>1. CASE UNCHANGED queue BY <1>1 DEF TypeOK
<1>2. ASSUME NEW r \in Request, ConfirmPush(r) PROVE queue' \in Seq(Video)
  <2>1. rvideo[r] \in Video BY <1>2 DEF ConfirmPush, TypeOK, RequestType
  <2>2. QED BY <1>2, <2>1, PushFacts DEF ConfirmPush, TypeOK
<1>3. ASSUME NEW w \in Worker, WorkerPop(w) PROVE queue' \in Seq(Video)
  BY <1>3, PopFacts DEF WorkerPop, TypeOK
<1>4. QED BY <1>1, <1>2, <1>3, QueueFrame

\* A step keeps the types of the workers.
LEMMA WorkerTypeNext == ASSUME TypeOK, [Next]_vars PROVE WorkerType'
<1> USE NullAssumption, AttemptsAssumption DEF WorkerType, Bucket, TypeOK
<1>1. CASE UNCHANGED wrkVars BY <1>1 DEF wrkVars
<1>2. ASSUME NEW w \in Worker, NEW kind \in {"transient", "permanent"}, wpc[w] # "idle",
             AttemptFails(w, kind), UNCHANGED <<wjob, wsource>>
      PROVE  WorkerType'
  <2>1. CASE kind = "transient" /\ wattempt[w] < MaxAttempts
    BY <1>2, <2>1 DEF AttemptFails
  <2>2. CASE ~(kind = "transient" /\ wattempt[w] < MaxAttempts)
    BY <1>2, <2>2 DEF AttemptFails
  <2>3. QED BY <2>1, <2>2
<1>3. ASSUME NEW w \in Worker, WorkerStep(w) PROVE WorkerType'
  <2>1. CASE WorkerPop(w) BY <2>1, PopFacts DEF WorkerPop
  <2>2. CASE WorkerRead(w) BY <2>2, <1>2 DEF WorkerRead, RowType
  <2>3. CASE WorkerMedia(w) BY <2>3, <1>2 DEF WorkerMedia
  <2>4. CASE WorkerUpload(w) BY <2>4, <1>2 DEF WorkerUpload
  <2>5. CASE WorkerWrite(w) BY <2>5, <1>2 DEF WorkerWrite
  <2>6. CASE WorkerSignal(w) BY <2>6 DEF WorkerSignal
  <2>7. CASE WorkerMarkFailed(w) BY <2>7 DEF WorkerMarkFailed
  <2>8. CASE WorkerFinish(w) BY <2>8 DEF WorkerFinish
  <2>9. QED BY <1>3, <2>1, <2>2, <2>3, <2>4, <2>5, <2>6, <2>7, <2>8 DEF WorkerStep
<1>4. ASSUME NEW w \in Worker, WorkerLosesJob(w) PROVE WorkerType'
  BY <1>4 DEF WorkerLosesJob
<1>5. QED BY <1>1, <1>3, <1>4, WorkerFrame

\* A step keeps the types of the remaining variables.
LEMMA OtherTypeNext == ASSUME TypeOK, [Next]_vars PROVE OtherType'
<1> USE OrphansAssumption DEF OtherType, TypeOK
<1>1. CASE UNCHANGED <<purge, signalled, orphans, wiped, lost>> BY <1>1
<1>2. ASSUME NEW v \in Video, HardDeleteRead(v) \/ HardDeleteObject(v) \/ HardDeleteRow(v)
      PROVE  OtherType'
  BY <1>2 DEF HardDeleteRead, HardDeleteObject, HardDeleteRow, RowType, Bucket
<1>3. ASSUME NEW r \in Request, ConfirmSignal(r) PROVE OtherType'
  <2>1. rvideo[r] \in Video BY <1>3 DEF ConfirmSignal, RequestType
  <2>2. signalled[rvideo[r]] \cup {"PROCESSING"} \in SUBSET {"PROCESSING", "PUBLISHED", "FAILED"}
    BY <2>1
  <2>3. signalled' \in [Video -> SUBSET {"PROCESSING", "PUBLISHED", "FAILED"}]
    BY <1>3, <2>1, <2>2 DEF ConfirmSignal
  <2>4. QED BY <1>3, <2>3 DEF ConfirmSignal
<1>4. ASSUME NEW r \in Request, ConfirmAbort(r) PROVE OtherType'
  <2>1. rvideo[r] \in Video BY <1>4 DEF ConfirmAbort, RequestType
  <2>2. orphans' \in [Video -> 0 .. MaxOrphans]
    <3>1. CASE rpc[r] = "pushed" BY <1>4, <2>1, <3>1 DEF ConfirmAbort
    <3>2. CASE rpc[r] # "pushed" BY <1>4, <3>2 DEF ConfirmAbort
    <3>3. QED BY <3>1, <3>2
  <2>3. QED BY <1>4, <2>2 DEF ConfirmAbort
<1>5. ASSUME NEW w \in Worker, WorkerSignal(w) \/ WorkerMarkFailed(w) \/ WorkerLosesJob(w)
      PROVE  OtherType'
  <2>1. signalled' \in [Video -> SUBSET {"PROCESSING", "PUBLISHED", "FAILED"}]
    BY <1>5 DEF WorkerSignal, WorkerMarkFailed, WorkerLosesJob
  <2>2. lost' \in SUBSET Video
    BY <1>5 DEF WorkerSignal, WorkerMarkFailed, WorkerLosesJob, WorkerType
  <2>3. QED BY <1>5, <2>1, <2>2 DEF WorkerSignal, WorkerMarkFailed, WorkerLosesJob
<1>6. QED BY <1>1, <1>2, <1>3, <1>4, <1>5, OtherFrame

\* Every variable keeps its type in every behaviour of the pipeline.
THEOREM TypeCorrect == Spec => []TypeOK
<1>1. TypeOK /\ [Next]_vars => TypeOK'
  BY RowTypeNext, ObjectTypeNext, RequestTypeNext, QueueTypeNext, WorkerTypeNext,
     OtherTypeNext DEF TypeOK
<1>2. QED BY <1>1, TypeInit, PTL DEF Spec
----------------------------------------------------------------------------
(* The row lock, and what a step can do to a status. *)

\* A status only moves forward: into DRAFT by the insert, from DRAFT to
\* PROCESSING by a commit, or to an outcome.
Forward(v) ==
  \/ status'[v] = status[v]
  \/ status[v] = "absent" /\ status'[v] = "DRAFT"
  \/ status[v] = "DRAFT" /\ status'[v] = "PROCESSING"
  \/ status'[v] \in Settled

\* A row's status moves forward only: DRAFT, PROCESSING, then an outcome.
LEMMA StatusStep ==
  ASSUME TypeOK, LockInv, [Next]_vars, NEW v \in Video
  PROVE  Forward(v)
<1> USE DEF TypeOK, RowType, Forward, Settled
<1>1. CASE UNCHANGED rowVars BY <1>1 DEF rowVars
<1>2. ASSUME NEW u \in Video, InitUpload(u) \/ DeleteVideo(u) \/ HardDeleteRow(u)
      PROVE  Forward(v)
  BY <1>2 DEF InitUpload, DeleteVideo, HardDeleteRow
<1>3. ASSUME NEW r \in Request, ConfirmCommit(r) PROVE Forward(v)
  BY <1>3 DEF ConfirmCommit, LockInv, InTxn
<1>4. ASSUME NEW w \in Worker, WorkerWrite(w) \/ WorkerMarkFailed(w) PROVE Forward(v)
  BY <1>4 DEF WorkerWrite, WorkerMarkFailed
<1>5. QED BY <1>1, <1>2, <1>3, <1>4, RowFrame

\* Only the transaction that holds the lock of a DRAFT row can change it.
LEMMA LockedRow ==
  ASSUME TypeOK, LockInv, [Next]_vars, NEW r \in Request, rpc[r] \in InTxn, rpc'[r] \in InTxn
  PROVE  status'[rvideo[r]] = "DRAFT"
<1> DEFINE v == rvideo[r]
<1>1. v \in Video /\ lockedBy[v] = r /\ status[v] = "DRAFT" BY DEF LockInv
<1>2. lockedBy[v] # NoRequest BY <1>1, NullAssumption
<1> USE DEF TypeOK, RowType
<1>3. CASE UNCHANGED rowVars BY <1>1, <1>3 DEF rowVars
<1>4. ASSUME NEW u \in Video, InitUpload(u) \/ DeleteVideo(u) \/ HardDeleteRow(u)
      PROVE  status'[v] = "DRAFT"
  BY <1>1, <1>2, <1>4 DEF InitUpload, DeleteVideo, HardDeleteRow
<1>5. ASSUME NEW q \in Request, ConfirmCommit(q) PROVE status'[v] = "DRAFT"
  <2>1. q # r BY <1>5 DEF ConfirmCommit, InTxn, RequestType
  <2>2. rvideo[q] # v BY <1>1, <1>5, <2>1 DEF ConfirmCommit, LockInv, InTxn
  <2>3. QED BY <1>1, <1>5, <2>2 DEF ConfirmCommit
<1>6. ASSUME NEW w \in Worker, WorkerWrite(w) \/ WorkerMarkFailed(w)
      PROVE  status'[v] = "DRAFT"
  BY <1>1, <1>2, <1>6 DEF WorkerWrite, WorkerMarkFailed
<1>7. QED BY <1>3, <1>4, <1>5, <1>6, RowFrame

\* A step keeps LockInv.
LEMMA LockNext == ASSUME TypeOK, LockInv, [Next]_vars PROVE LockInv'
<1> DEFINE Holds(r) == rvideo[r] \in Video /\ lockedBy[rvideo[r]] = r
<1>1. ASSUME NEW r \in Request, rpc'[r] \in InTxn
      PROVE  Holds(r)' /\ status'[rvideo'[r]] = "DRAFT"
  <2> USE NullAssumption DEF TypeOK, RequestType, LockInv
  <2>1. CASE UNCHANGED reqVars
    BY <1>1, <2>1, LockedRow DEF reqVars
  <2>2. ASSUME NEW q \in Request, NEW v \in Video, ConfirmLock(q, v)
        PROVE  Holds(r)' /\ status'[rvideo'[r]] = "DRAFT"
    <3>1. CASE q = r BY <1>1, <2>2, <3>1 DEF ConfirmLock, rowVars
    <3>2. CASE q # r BY <1>1, <2>2, <3>2, LockedRow DEF ConfirmLock
    <3>3. QED BY <3>1, <3>2
  <2>3. ASSUME NEW q \in Request, rpc[q] \in InTxn, Rollback(q)
        PROVE  Holds(r)' /\ status'[rvideo'[r]] = "DRAFT"
    <3>1. q # r BY <1>1, <2>3 DEF Rollback, InTxn
    <3>2. rpc[r] \in InTxn /\ rvideo'[r] = rvideo[r] BY <1>1, <2>3, <3>1 DEF Rollback
    <3>3. rvideo[q] # rvideo[r] BY <2>3, <3>1, <3>2
    <3>4. QED BY <1>1, <2>3, <3>2, <3>3, LockedRow DEF Rollback
  <2>4. ASSUME NEW q \in Request, ConfirmStep(q)
        PROVE  Holds(r)' /\ status'[rvideo'[r]] = "DRAFT"
    <3>1. CASE ConfirmCheckSize(q)
      <4>1. CASE Rollback(q) BY <2>3, <3>1, <4>1 DEF ConfirmCheckSize, InTxn
      <4>2. CASE ~Rollback(q) BY <1>1, <3>1, <4>2, LockedRow DEF ConfirmCheckSize, InTxn
      <4>3. QED BY <4>1, <4>2
    <3>2. CASE ConfirmCheckSignature(q)
      <4>1. CASE Rollback(q) BY <2>3, <3>2, <4>1 DEF ConfirmCheckSignature, InTxn
      <4>2. CASE ~Rollback(q) BY <1>1, <3>2, <4>2, LockedRow DEF ConfirmCheckSignature, InTxn
      <4>3. QED BY <4>1, <4>2
    <3>3. CASE ConfirmPush(q) BY <1>1, <3>3, LockedRow DEF ConfirmPush, InTxn
    <3>4. CASE ConfirmCommit(q)
      <4>1. q # r BY <1>1, <3>4 DEF ConfirmCommit, InTxn
      <4>2. rpc[r] \in InTxn /\ rvideo'[r] = rvideo[r] BY <1>1, <3>4, <4>1 DEF ConfirmCommit
      <4>3. rvideo[q] # rvideo[r] BY <3>4, <4>1, <4>2 DEF ConfirmCommit, InTxn
      <4>4. QED BY <1>1, <3>4, <4>2, <4>3, LockedRow DEF ConfirmCommit
    <3>5. CASE ConfirmSignal(q) BY <1>1, <3>5, LockedRow DEF ConfirmSignal, InTxn
    <3>6. QED BY <2>4, <3>1, <3>2, <3>3, <3>4, <3>5 DEF ConfirmStep
  <2>5. ASSUME NEW q \in Request, ConfirmAbort(q)
        PROVE  Holds(r)' /\ status'[rvideo'[r]] = "DRAFT"
    BY <2>3, <2>5 DEF ConfirmAbort, InTxn
  <2>6. QED BY <2>1, <2>2, <2>4, <2>5, RequestFrame
<1>2. ASSUME NEW r \in Request, rpc'[r] = "committed"
      PROVE  rvideo'[r] \in Video /\ status'[rvideo'[r]] \in Settled \cup {"PROCESSING"}
  <2>1. CASE rpc[r] = "committed" /\ rvideo'[r] = rvideo[r]
    BY <2>1, StatusStep DEF LockInv, Forward, Settled
  <2>2. CASE ConfirmCommit(r)
    BY <2>2 DEF ConfirmCommit, LockInv, InTxn, TypeOK, RowType, RequestType
  <2>3. (rpc[r] = "committed" /\ rvideo'[r] = rvideo[r]) \/ ConfirmCommit(r)
    BY <1>2, RequestFrame
    DEF reqVars, ConfirmStep, ConfirmLock, ConfirmCheckSize, ConfirmCheckSignature,
        ConfirmPush, ConfirmCommit, ConfirmSignal, ConfirmAbort, Rollback, TypeOK, RequestType
  <2>4. QED BY <2>1, <2>2, <2>3
<1>3. QED BY <1>1, <1>2 DEF LockInv

\* confirm_upload's row lock works: while its transaction is open the row is its
\* own and DRAFT, and once it has committed the row is never DRAFT again.
THEOREM LockInvariant == Spec => []LockInv
<1>1. Init => LockInv BY DEF Init, LockInv, InTxn
<1>2. TypeOK /\ LockInv /\ [Next]_vars => LockInv' BY LockNext
<1>3. QED BY <1>1, <1>2, TypeCorrect, PTL DEF Spec
----------------------------------------------------------------------------
(* Media and signals. *)

\* A row with an outcome keeps one.
LEMMA SettledStays ==
  ASSUME TypeOK, LockInv, [Next]_vars, NEW v \in Video, status[v] \in Settled
  PROVE  status'[v] \in Settled
  BY StatusStep DEF Forward, Settled

\* A copy stays where it is, unless a hard delete removes it.
LEMMA CopyKept ==
  ASSUME [Next]_vars
  PROVE  pubObj \cup wiped \subseteq pubObj' \cup wiped'
<1>1. wiped \subseteq wiped'
  BY OtherFrame DEF HardDeleteRead, HardDeleteObject, HardDeleteRow, ConfirmSignal,
     ConfirmAbort, WorkerSignal, WorkerMarkFailed, WorkerLosesJob, objVars
<1>2. pubObj \subseteq pubObj' \cup wiped'
  BY ObjectFrame DEF objVars, HardDeleteObject, ClientPut, WorkerUpload
<1>3. QED BY <1>1, <1>2

\* A step keeps WorkerInv.
LEMMA WorkerNext == ASSUME TypeOK, LockInv, WorkerInv, [Next]_vars PROVE WorkerInv'
<1> SUFFICES ASSUME NEW w \in Worker
             PROVE  /\ wpc'[w] = "write" => wjob'[w] \in pubObj' \cup wiped'
                    /\ wpc'[w] = "signal" \/ (wpc'[w] = "finish" /\ w \notin werror')
                         => status'[wjob'[w]] \in Settled
  BY DEF WorkerInv
<1>1. ASSUME wpc'[w] = "write" PROVE wjob'[w] \in pubObj' \cup wiped'
  <2>1. \/ WorkerUpload(w) /\ wjob'[w] \in pubObj'
        \/ wpc[w] = "write" /\ wjob'[w] = wjob[w]
    BY <1>1, WorkerFrame
    DEF TypeOK, WorkerType, wrkVars, WorkerStep, WorkerPop, WorkerRead, WorkerMedia,
        WorkerUpload, WorkerWrite, WorkerSignal, WorkerMarkFailed, WorkerFinish,
        WorkerLosesJob, AttemptFails
  <2>2. QED BY <2>1, CopyKept DEF WorkerInv
<1>2. ASSUME wpc'[w] = "signal" \/ (wpc'[w] = "finish" /\ w \notin werror')
      PROVE  status'[wjob'[w]] \in Settled
  <2>1. \/ WorkerWrite(w) /\ wpc'[w] = "signal"
        \/ /\ wpc[w] = "signal" \/ (wpc[w] = "finish" /\ w \notin werror)
           /\ wjob'[w] = wjob[w]
    <3>1. CASE UNCHANGED wrkVars BY <1>2, <3>1 DEF wrkVars
    <3>2. ASSUME NEW x \in Worker, WorkerStep(x) \/ WorkerLosesJob(x), x # w
          PROVE  wpc'[w] = wpc[w] /\ wjob'[w] = wjob[w] /\ (w \in werror <=> w \in werror')
      BY <3>2
      DEF TypeOK, WorkerType, WorkerStep, WorkerPop, WorkerRead, WorkerMedia, WorkerUpload,
          WorkerWrite, WorkerSignal, WorkerMarkFailed, WorkerFinish, WorkerLosesJob,
          AttemptFails
    <3>3. ASSUME WorkerStep(w) \/ WorkerLosesJob(w)
          PROVE  WorkerWrite(w) \/ WorkerSignal(w)
      BY <1>2, <3>3
      DEF TypeOK, WorkerType, WorkerStep, WorkerPop, WorkerRead, WorkerMedia, WorkerUpload,
          WorkerMarkFailed, WorkerFinish, WorkerLosesJob, AttemptFails
    <3>4. CASE WorkerWrite(w)
      BY <1>2, <3>4 DEF WorkerWrite, AttemptFails, TypeOK, WorkerType
    <3>5. CASE WorkerSignal(w)
      BY <1>2, <3>5 DEF WorkerSignal, TypeOK, WorkerType
    <3>6. QED BY <1>2, <3>1, <3>2, <3>3, <3>4, <3>5, WorkerFrame
  <2>2. CASE WorkerWrite(w) /\ wpc'[w] = "signal"
    BY <2>2 DEF WorkerWrite, AttemptFails, Settled, TypeOK, RowType, WorkerType
  <2>3. CASE /\ wpc[w] = "signal" \/ (wpc[w] = "finish" /\ w \notin werror)
             /\ wjob'[w] = wjob[w]
    <3>1. wjob[w] \in Video /\ status[wjob[w]] \in Settled
      BY <2>3 DEF WorkerInv, TypeOK, WorkerType
    <3>2. QED BY <2>3, <3>1, SettledStays
  <2>4. QED BY <2>1, <2>2, <2>3
<1>3. QED BY <1>1, <1>2

\* A worker about to publish has uploaded its copy, unless a hard delete removed
\* it, and a worker that is done without an error leaves a row with an outcome.
THEOREM WorkerInvariant == Spec => []WorkerInv
<1>1. Init => WorkerInv BY DEF Init, WorkerInv
<1>2. TypeOK /\ LockInv /\ WorkerInv /\ [Next]_vars => WorkerInv' BY WorkerNext
<1>3. QED BY <1>1, <1>2, TypeCorrect, LockInvariant, PTL DEF Spec

\* A step keeps PublishedHasMedia.
LEMMA MediaNext ==
  ASSUME TypeOK, WorkerInv, PublishedHasMedia, [Next]_vars
  PROVE  PublishedHasMedia'
<1> SUFFICES ASSUME NEW v \in Video, status'[v] = "PUBLISHED", v \notin wiped'
             PROVE  bucket'[v] = "public" /\ v \in pubObj'
  BY DEF PublishedHasMedia
<1>1. v \notin wiped
  BY OtherFrame DEF HardDeleteRead, HardDeleteObject, HardDeleteRow, ConfirmSignal,
     ConfirmAbort, WorkerSignal, WorkerMarkFailed, WorkerLosesJob, objVars
<1>2. v \in pubObj => v \in pubObj'
  BY ObjectFrame DEF objVars, HardDeleteObject, ClientPut, WorkerUpload
<1>3. CASE status[v] = "PUBLISHED" /\ bucket'[v] = bucket[v]
  BY <1>1, <1>2, <1>3 DEF PublishedHasMedia
<1>4. ASSUME NEW w \in Worker, WorkerWrite(w), wjob[w] = v, bucket'[v] = "public"
      PROVE  v \in pubObj'
  BY <1>1, <1>2, <1>4 DEF WorkerWrite, WorkerInv
<1>5. \/ status[v] = "PUBLISHED" /\ bucket'[v] = bucket[v]
      \/ \E w \in Worker : WorkerWrite(w) /\ wjob[w] = v /\ bucket'[v] = "public"
  BY RowFrame
  DEF rowVars, InitUpload, DeleteVideo, HardDeleteRow, ConfirmCommit, WorkerWrite,
      WorkerMarkFailed, TypeOK, RowType
<1>6. QED BY <1>3, <1>4, <1>5

\* A published row points at media that exists, whatever crashes, retries and
\* soft deletes went before; only a hard delete of that video can break it.
THEOREM PublishedMedia == Spec => []PublishedHasMedia
<1>1. Init => PublishedHasMedia BY DEF Init, PublishedHasMedia
<1>2. TypeOK /\ WorkerInv /\ PublishedHasMedia /\ [Next]_vars => PublishedHasMedia'
  BY MediaNext
<1>3. QED BY <1>1, <1>2, TypeCorrect, WorkerInvariant, PTL DEF Spec

\* A step keeps the signals behind the rows.
LEMMA SignalsNext ==
  ASSUME TypeOK, LockInv, WorkerInv, SignalsFollowCommits, [Next]_vars
  PROVE  SignalsFollowCommits'
<1> SUFFICES ASSUME NEW v \in Video
             PROVE  /\ signalled'[v] # {} => status'[v] \notin {"absent", "DRAFT"}
                    /\ signalled'[v] \cap {"PUBLISHED", "FAILED"} # {}
                         => status'[v] \in {"PUBLISHED", "FAILED", "purged"}
  BY DEF SignalsFollowCommits
<1>1. CASE signalled'[v] = signalled[v]
  BY <1>1, StatusStep DEF SignalsFollowCommits, Forward, Settled
<1>2. ASSUME NEW r \in Request, ConfirmSignal(r), rvideo[r] = v,
             signalled'[v] = signalled[v] \cup {"PROCESSING"}
      PROVE  /\ status'[v] \notin {"absent", "DRAFT"}
             /\ signalled'[v] \cap {"PUBLISHED", "FAILED"} # {} => status'[v] \in Settled
  <2>1. status[v] \in Settled \cup {"PROCESSING"} BY <1>2 DEF ConfirmSignal, LockInv
  <2>2. signalled'[v] \cap {"PUBLISHED", "FAILED"} = signalled[v] \cap {"PUBLISHED", "FAILED"}
    BY <1>2
  <2>3. QED BY <2>1, <2>2, StatusStep DEF Forward, Settled, SignalsFollowCommits
<1>3. ASSUME NEW w \in Worker, WorkerSignal(w) \/ WorkerMarkFailed(w), wjob[w] = v
      PROVE  status'[v] \in Settled
  <2>1. CASE WorkerSignal(w)
    <3>1. status[v] \in Settled BY <1>3, <2>1 DEF WorkerSignal, WorkerInv
    <3>2. QED BY <3>1, SettledStays
  <2>2. CASE WorkerMarkFailed(w)
    BY <1>3, <2>2 DEF WorkerMarkFailed, Settled, TypeOK, RowType
  <2>3. QED BY <1>3, <2>1, <2>2
<1>4. \/ signalled'[v] = signalled[v]
      \/ \E r \in Request : /\ ConfirmSignal(r) /\ rvideo[r] = v
                            /\ signalled'[v] = signalled[v] \cup {"PROCESSING"}
      \/ \E w \in Worker : (WorkerSignal(w) \/ WorkerMarkFailed(w)) /\ wjob[w] = v
  <2> USE DEF TypeOK, OtherType
  <2>1. ASSUME NEW u \in Video, HardDeleteRead(u) \/ HardDeleteObject(u) \/ HardDeleteRow(u)
        PROVE  signalled'[v] = signalled[v]
    BY <2>1 DEF HardDeleteRead, HardDeleteObject, HardDeleteRow
  <2>2. ASSUME NEW r \in Request, ConfirmSignal(r)
        PROVE  \/ signalled'[v] = signalled[v]
               \/ rvideo[r] = v /\ signalled'[v] = signalled[v] \cup {"PROCESSING"}
    BY <2>2 DEF ConfirmSignal
  <2>3. ASSUME NEW r \in Request, ConfirmAbort(r) PROVE signalled'[v] = signalled[v]
    BY <2>3 DEF ConfirmAbort
  <2>4. ASSUME NEW w \in Worker, WorkerSignal(w) \/ WorkerMarkFailed(w), wjob[w] # v
        PROVE  signalled'[v] = signalled[v]
    BY <2>4 DEF WorkerSignal, WorkerMarkFailed
  <2>5. ASSUME NEW w \in Worker, WorkerLosesJob(w) PROVE signalled'[v] = signalled[v]
    BY <2>5 DEF WorkerLosesJob
  <2>6. QED BY <2>1, <2>2, <2>3, <2>4, <2>5, OtherFrame
<1>5. QED BY <1>1, <1>2, <1>3, <1>4 DEF Settled

\* A realtime signal never announces a status the row does not have yet.
THEOREM SignalsFollow == Spec => []SignalsFollowCommits
<1>1. Init => SignalsFollowCommits BY DEF Init, SignalsFollowCommits
<1>2. TypeOK /\ LockInv /\ WorkerInv /\ SignalsFollowCommits /\ [Next]_vars => SignalsFollowCommits'
  BY SignalsNext
<1>3. QED BY <1>1, <1>2, TypeCorrect, LockInvariant, WorkerInvariant, PTL DEF Spec
----------------------------------------------------------------------------
(* The life cycle. *)

\* A hard delete under way has a row, and has removed its object before the row;
\* jobs are of videos that have been inserted; a worker about to announce a
\* published video has made its copy.
CycleInv ==
  /\ \A v \in Video : purge[v] # "none" => status[v] \in Live
  /\ \A v \in Video : purge[v] = "row" => v \in wiped
  /\ \A i \in DOMAIN queue : status[queue[i]] # "absent"
  /\ \A w \in Worker : wpc[w] # "idle" => status[wjob[w]] # "absent"
  /\ \A w \in Worker : wpc[w] = "signal" => wjob[w] \in pubObj \cup wiped

\* A row goes only with the last step of its hard delete.
LEMMA RowGoes ==
  ASSUME TypeOK, [Next]_vars, NEW v \in Video, status[v] \in Live, status'[v] \notin Live
  PROVE  HardDeleteRow(v)
  BY RowFrame DEF rowVars, InitUpload, DeleteVideo, HardDeleteRow, ConfirmCommit, WorkerWrite,
     WorkerMarkFailed, TypeOK, RowType, Live

\* A step keeps CycleInv.
LEMMA CycleNext == ASSUME TypeOK, LockInv, WorkerInv, CycleInv, [Next]_vars PROVE CycleInv'
<1>1. ASSUME NEW v \in Video, purge'[v] # "none" PROVE status'[v] \in Live
  <2>1. status[v] \in Live
    BY <1>1, OtherFrame
    DEF Bucket, TypeOK, OtherType, CycleInv, HardDeleteRead, HardDeleteObject, HardDeleteRow,
        ConfirmSignal, ConfirmAbort, WorkerSignal, WorkerMarkFailed, WorkerLosesJob
  <2>2. ~HardDeleteRow(v) BY <1>1 DEF HardDeleteRow, TypeOK, OtherType
  <2>3. QED BY <2>1, <2>2, RowGoes
<1>2. ASSUME NEW v \in Video, purge'[v] = "row" PROVE v \in wiped'
  BY <1>2, OtherFrame
  DEF TypeOK, OtherType, CycleInv, HardDeleteRead, HardDeleteObject, HardDeleteRow, ConfirmSignal,
      ConfirmAbort, WorkerSignal, WorkerMarkFailed, WorkerLosesJob, RowType, Bucket
<1>3. ASSUME NEW v \in Video, status[v] # "absent" PROVE status'[v] # "absent"
  BY <1>3, StatusStep DEF Forward, Settled
<1>4. ASSUME NEW i \in DOMAIN queue' PROVE status'[queue'[i]] # "absent"
  <2>1. \A j \in DOMAIN queue : queue[j] \in Video BY DEF TypeOK
  <2>2. CASE UNCHANGED queue BY <1>3, <1>4, <2>1, <2>2 DEF CycleInv
  <2>3. ASSUME NEW r \in Request, ConfirmPush(r) PROVE status'[queue'[i]] # "absent"
    <3>1. rvideo[r] \in Video /\ status[rvideo[r]] = "DRAFT"
      BY <2>3 DEF ConfirmPush, LockInv, InTxn
    <3>2. queue' = Append(queue, rvideo[r]) BY <2>3 DEF ConfirmPush
    <3>3. (i \in DOMAIN queue /\ queue'[i] = queue[i]) \/ queue'[i] = rvideo[r]
      BY <1>4, <3>1, <3>2, PushFacts DEF TypeOK
    <3>4. QED BY <1>3, <2>1, <3>1, <3>3 DEF CycleInv
  <2>4. ASSUME NEW w \in Worker, WorkerPop(w) PROVE status'[queue'[i]] # "absent"
    <3>1. queue # <<>> /\ queue' = Tail(queue) BY <2>4 DEF WorkerPop
    <3>2. i + 1 \in DOMAIN queue /\ queue'[i] = queue[i + 1] BY <1>4, <3>1, PopFacts DEF TypeOK
    <3>3. QED BY <1>3, <2>1, <3>2 DEF CycleInv
  <2>5. QED BY <2>2, <2>3, <2>4, QueueFrame
<1>5. ASSUME NEW w \in Worker, wpc'[w] # "idle" PROVE status'[wjob'[w]] # "absent"
  <2>1. \/ WorkerPop(w) /\ wjob'[w] = Head(queue)
        \/ wpc[w] # "idle" /\ wjob'[w] = wjob[w]
    BY <1>5, WorkerFrame
    DEF TypeOK, WorkerType, wrkVars, WorkerStep, WorkerPop, WorkerRead, WorkerMedia, WorkerUpload,
        WorkerWrite, WorkerSignal, WorkerMarkFailed, WorkerFinish, WorkerLosesJob, AttemptFails
  <2>2. CASE WorkerPop(w) /\ wjob'[w] = Head(queue)
    BY <1>3, <2>2, PopFacts DEF WorkerPop, CycleInv, TypeOK
  <2>3. CASE wpc[w] # "idle" /\ wjob'[w] = wjob[w]
    BY <1>3, <2>3 DEF CycleInv, TypeOK, WorkerType
  <2>4. QED BY <2>1, <2>2, <2>3
<1>6. ASSUME NEW w \in Worker, wpc'[w] = "signal" PROVE wjob'[w] \in pubObj' \cup wiped'
  <2>1. wpc[w] \in {"write", "signal"} /\ wjob'[w] = wjob[w]
    BY <1>6, WorkerFrame
    DEF TypeOK, WorkerType, wrkVars, WorkerStep, WorkerPop, WorkerRead, WorkerMedia, WorkerUpload,
        WorkerWrite, WorkerSignal, WorkerMarkFailed, WorkerFinish, WorkerLosesJob, AttemptFails
  <2>2. QED BY <2>1, CopyKept DEF WorkerInv, CycleInv
<1>7. QED BY <1>1, <1>2, <1>4, <1>5, <1>6 DEF CycleInv

\* What the life cycle is about changes only in the actions named.
LEMMA CycleFrame ==
  ASSUME [Next]_vars
  PROVE  \/ UNCHANGED <<status, pubObj, wiped, signalled>>
         \/ \E v \in Video : InitUpload(v) \/ HardDeleteObject(v) \/ HardDeleteRow(v)
         \/ \E r \in Request : ConfirmCommit(r) \/ ConfirmSignal(r)
         \/ \E w \in Worker : \/ WorkerUpload(w) \/ WorkerWrite(w) \/ WorkerSignal(w)
                              \/ WorkerMarkFailed(w)
  BY DEF vars, rowVars, objVars, Next, VideoStep, ConfirmStep, WorkerStep, DeleteVideo,
         HardDeleteRead, ClientPut, ConfirmLock, ConfirmCheckSize, ConfirmCheckSignature,
         ConfirmPush, ConfirmAbort, WorkerPop, WorkerRead, WorkerMedia, WorkerFinish,
         WorkerLosesJob

\* Every step is one of the life cycle, or none.
LEMMA CycleStep ==
  ASSUME TypeOK, LockInv, WorkerInv, CycleInv, [Next]_vars
  PROVE  [Cycle!Next]_(Cycle!vars)
<1>1. SUFFICES Cycle!Next \/ UNCHANGED <<status, Copy, signalled>> BY DEF Cycle!vars
<1> USE DEF TypeOK, RowType
<1>2. CASE UNCHANGED <<status, pubObj, wiped, signalled>> BY <1>2 DEF Copy
<1>3. ASSUME NEW v \in Video, InitUpload(v) PROVE Cycle!Next
  <2>1. Cycle!Insert(v) BY <1>3 DEF InitUpload, Cycle!Insert, Cycle!Move, Copy, objVars
  <2>2. QED BY <2>1 DEF Cycle!Next
<1>4. ASSUME NEW v \in Video, HardDeleteObject(v)
      PROVE  Cycle!Next \/ UNCHANGED <<status, Copy, signalled>>
  <2>1. UNCHANGED <<status, signalled>> BY <1>4 DEF HardDeleteObject, rowVars
  <2>2. CASE UNCHANGED <<pubObj, wiped>> BY <2>1, <2>2 DEF Copy
  <2>3. CASE wiped' = wiped \cup {v} /\ pubObj' \in {pubObj, pubObj \ {v}}
    <3>1. Copy' = [Copy EXCEPT ![v] = "erased"] BY <2>3 DEF Copy
    <3>2. status[v] \in Live BY <1>4 DEF HardDeleteObject, CycleInv, Bucket
    <3>3. Cycle!Erase(v) BY <2>1, <3>1, <3>2 DEF Cycle!Erase, Cycle!Row, Cycle!Outcome, Live
    <3>4. QED BY <3>3 DEF Cycle!Next
  <2>4. QED BY <1>4, <2>2, <2>3 DEF HardDeleteObject, objVars
<1>5. ASSUME NEW v \in Video, HardDeleteRow(v)
      PROVE  Cycle!Next \/ UNCHANGED <<status, Copy, signalled>>
  <2>1. UNCHANGED <<Copy, signalled>> BY <1>5 DEF HardDeleteRow, objVars, Copy
  <2>2. Copy[v] = "erased" /\ status[v] \in Live BY <1>5 DEF HardDeleteRow, CycleInv, Copy
  <2>3. CASE status' = [status EXCEPT ![v] = "purged"]
    <3>1. Cycle!Remove(v)
      BY <2>1, <2>2, <2>3 DEF Cycle!Remove, Cycle!Move, Cycle!Row, Cycle!Outcome, Live
    <3>2. QED BY <3>1 DEF Cycle!Next
  <2>4. QED BY <1>5, <2>1, <2>3 DEF HardDeleteRow
<1>6. ASSUME NEW r \in Request, ConfirmCommit(r) PROVE Cycle!Next
  <2>1. rvideo[r] \in Video /\ status[rvideo[r]] = "DRAFT"
    BY <1>6 DEF ConfirmCommit, LockInv, InTxn
  <2>2. Cycle!Confirm(rvideo[r])
    BY <1>6, <2>1 DEF ConfirmCommit, Cycle!Confirm, Cycle!Move, Copy, objVars
  <2>3. QED BY <2>1, <2>2 DEF Cycle!Next
<1>7. ASSUME NEW r \in Request, ConfirmSignal(r)
      PROVE  Cycle!Next \/ UNCHANGED <<status, Copy, signalled>>
  <2>1. rvideo[r] \in Video /\ status[rvideo[r]] \in Settled \cup {"PROCESSING"}
    BY <1>7 DEF ConfirmSignal, LockInv
  <2>2. UNCHANGED <<status, Copy>> BY <1>7 DEF ConfirmSignal, rowVars, objVars, Copy
  <2>3. CASE signalled' = [signalled EXCEPT ![rvideo[r]] = @ \cup {"PROCESSING"}]
    <3>1. Cycle!Announce(rvideo[r], "PROCESSING")
      BY <2>1, <2>2, <2>3 DEF Cycle!Announce, Cycle!Say, Cycle!Outcome, Settled
    <3>2. QED BY <2>1, <3>1 DEF Cycle!Next
  <2>4. QED BY <1>7, <2>2, <2>3 DEF ConfirmSignal
<1>8. ASSUME NEW w \in Worker, wpc[w] # "idle" PROVE wjob[w] \in Video /\ status[wjob[w]] # "absent"
  BY <1>8 DEF WorkerType, CycleInv
<1>9. ASSUME NEW w \in Worker, WorkerUpload(w)
      PROVE  Cycle!Next \/ UNCHANGED <<status, Copy, signalled>>
  <2>1. UNCHANGED <<status, wiped, signalled>> BY <1>9 DEF WorkerUpload, rowVars
  <2>2. wjob[w] \in Video /\ status[wjob[w]] # "absent" BY <1>8, <1>9 DEF WorkerUpload
  <2>3. CASE pubObj' = pubObj \cup {wjob[w]} /\ Copy[wjob[w]] = "none"
    <3>1. Copy' = [Copy EXCEPT ![wjob[w]] = "stored"] BY <2>1, <2>2, <2>3 DEF Copy
    <3>2. Cycle!Store(wjob[w]) BY <2>1, <2>2, <2>3, <3>1 DEF Cycle!Store
    <3>3. QED BY <2>2, <3>2 DEF Cycle!Next
  <2>4. CASE pubObj' = pubObj \cup {wjob[w]} /\ Copy[wjob[w]] # "none"
    BY <2>1, <2>2, <2>4 DEF Copy
  <2>5. CASE UNCHANGED pubObj BY <2>1, <2>5 DEF Copy
  <2>6. QED BY <1>9, <2>3, <2>4, <2>5 DEF WorkerUpload
<1>10. ASSUME NEW w \in Worker, WorkerWrite(w)
       PROVE  Cycle!Next \/ UNCHANGED <<status, Copy, signalled>>
  <2>1. UNCHANGED <<Copy, signalled>> BY <1>10 DEF WorkerWrite, objVars, Copy
  <2>2. wjob[w] \in Video /\ Copy[wjob[w]] # "none"
    BY <1>8, <1>10 DEF WorkerWrite, WorkerInv, Copy
  <2>3. CASE status[wjob[w]] \in Live /\ status' = [status EXCEPT ![wjob[w]] = "PUBLISHED"]
    <3>1. Cycle!Publish(wjob[w])
      BY <2>1, <2>2, <2>3 DEF Cycle!Publish, Cycle!Move, Cycle!Row, Cycle!Outcome, Live
    <3>2. QED BY <2>2, <3>1 DEF Cycle!Next
  <2>4. QED BY <1>10, <2>1, <2>3 DEF WorkerWrite
<1>11. ASSUME NEW w \in Worker, WorkerSignal(w)
       PROVE  Cycle!Next \/ UNCHANGED <<status, Copy, signalled>>
  <2>1. UNCHANGED <<status, Copy>> BY <1>11 DEF WorkerSignal, rowVars, objVars, Copy
  <2>2. wjob[w] \in Video /\ status[wjob[w]] \in Settled /\ Copy[wjob[w]] # "none"
    BY <1>8, <1>11 DEF WorkerSignal, WorkerInv, CycleInv, Copy
  <2>3. CASE signalled' = [signalled EXCEPT ![wjob[w]] = @ \cup {"PUBLISHED"}]
    <3>1. Cycle!Announce(wjob[w], "PUBLISHED")
      BY <2>1, <2>2, <2>3 DEF Cycle!Announce, Cycle!Say, Cycle!Outcome, Settled
    <3>2. QED BY <2>2, <3>1 DEF Cycle!Next
  <2>4. QED BY <1>11, <2>1, <2>3 DEF WorkerSignal
<1>12. ASSUME NEW w \in Worker, WorkerMarkFailed(w) PROVE Cycle!Next
  <2>1. wjob[w] \in Video /\ UNCHANGED Copy BY <1>8, <1>12 DEF WorkerMarkFailed, objVars, Copy
  <2>2. Cycle!Fail(wjob[w])
    BY <1>12, <2>1
    DEF WorkerMarkFailed, Cycle!Fail, Cycle!Move, Cycle!Say, Cycle!Row, Cycle!Outcome, Live
  <2>3. QED BY <2>1, <2>2 DEF Cycle!Next
<1>13. QED
  BY <1>2, <1>3, <1>4, <1>5, <1>6, <1>7, <1>9, <1>10, <1>11, <1>12, CycleFrame

\* Confirmations, workers and deletions implement VideoLifecycle: a late commit of
\* confirm_upload, a retry of the worker or a second job never takes back an
\* outcome, publishes without a copy or announces what is not so.
THEOREM FollowsLifecycle == Spec => Lifecycle
<1>1. Init => CycleInv BY DEF Init, CycleInv
<1>2. TypeOK /\ LockInv /\ WorkerInv /\ CycleInv /\ [Next]_vars => CycleInv' BY CycleNext
<1>3. Init => Cycle!Init BY DEF Init, Cycle!Init, Copy
<1>4. TypeOK /\ LockInv /\ WorkerInv /\ CycleInv /\ [Next]_vars => [Cycle!Next]_(Cycle!vars)
  BY CycleStep
<1>5. QED
  BY <1>1, <1>2, <1>3, <1>4, TypeCorrect, LockInvariant, WorkerInvariant, PTL
  DEF Spec, Lifecycle, Cycle!Spec
----------------------------------------------------------------------------
(* Jobs. *)

InQueue(v) == \E i \in DOMAIN queue : queue[i] = v

\* The worker may still write the row of its job.
Unsettled(w) ==
  \/ wpc[w] \in {"read", "media", "upload", "write"}
  \/ wpc[w] = "finish" /\ w \in werror

Backed(v) == InQueue(v) \/ \E w \in Worker : wjob[w] = v /\ Unsettled(w)

Pushed(v) == \E r \in Request : rpc[r] = "pushed" /\ rvideo[r] = v

\* NoStrandedVideo, also for a confirmation that has pushed and not committed.
StrandInv ==
  \A v \in Video :
    v \notin lost /\ (status[v] = "PROCESSING" \/ Pushed(v)) => Backed(v)

\* A pop moves the head of the list into a worker's hands.
LEMMA PopMoves ==
  ASSUME TypeOK, NEW w \in Worker, WorkerPop(w), NEW v \in Video
  PROVE  InQueue(v) => InQueue(v)' \/ wjob'[w] = v
<1> SUFFICES ASSUME NEW i \in DOMAIN queue, queue[i] = v PROVE InQueue(v)' \/ wjob'[w] = v
  BY DEF InQueue
<1>1. queue \in Seq(Video) /\ queue # <<>> /\ queue' = Tail(queue) /\ wjob'[w] = Head(queue)
  BY DEF WorkerPop, TypeOK, WorkerType
<1>2. CASE i = 1 BY <1>1, <1>2, PopFacts
<1>3. CASE i # 1
  <2>1. i - 1 \in DOMAIN Tail(queue) /\ Tail(queue)[i - 1] = queue[i]
    BY <1>1, <1>3, PopFacts
  <2>2. QED BY <1>1, <2>1 DEF InQueue
<1>4. QED BY <1>2, <1>3

\* A job stays with the list or a worker until the row has an outcome.
LEMMA BackedStep ==
  ASSUME TypeOK, LockInv, WorkerInv, [Next]_vars,
         NEW v \in Video, status[v] \in Live, Backed(v), v \notin lost'
  PROVE  Backed(v)' \/ status'[v] \in Settled
<1>1. CASE InQueue(v)
  <2>1. CASE UNCHANGED queue BY <1>1, <2>1 DEF Backed, InQueue
  <2>2. ASSUME NEW r \in Request, ConfirmPush(r) PROVE InQueue(v)'
    <3>1. rvideo[r] \in Video BY <2>2 DEF ConfirmPush, TypeOK, RequestType
    <3>2. \A i \in DOMAIN queue : i \in DOMAIN queue' /\ queue'[i] = queue[i]
      BY <2>2, <3>1, PushFacts DEF ConfirmPush, TypeOK
    <3>3. QED BY <1>1, <3>2 DEF InQueue
  <2>3. ASSUME NEW w \in Worker, WorkerPop(w) PROVE Backed(v)'
    BY <1>1, <2>3, PopMoves DEF Backed, WorkerPop, Unsettled, TypeOK, WorkerType
  <2>4. QED BY <2>1, <2>2, <2>3, QueueFrame DEF Backed
<1>2. ASSUME NEW w \in Worker, wjob[w] = v, Unsettled(w)
      PROVE  (wjob'[w] = v /\ Unsettled(w)') \/ status'[v] \in Settled
  <2>1. CASE UNCHANGED wrkVars BY <1>2, <2>1 DEF wrkVars, Unsettled
  <2>2. ASSUME NEW x \in Worker, WorkerStep(x) \/ WorkerLosesJob(x), x # w
        PROVE  wjob'[w] = v /\ Unsettled(w)'
    BY <1>2, <2>2
    DEF Unsettled, TypeOK, WorkerType, WorkerStep, WorkerPop, WorkerRead, WorkerMedia,
        WorkerUpload, WorkerWrite, WorkerSignal, WorkerMarkFailed, WorkerFinish,
        WorkerLosesJob, AttemptFails
  <2>3. CASE WorkerPop(w) \/ WorkerSignal(w)
    BY <1>2, <2>3 DEF WorkerPop, WorkerSignal, Unsettled, TypeOK, WorkerType
  <2>4. CASE WorkerRead(w) \/ WorkerMedia(w) \/ WorkerUpload(w)
    BY <1>2, <2>4
    DEF WorkerRead, WorkerMedia, WorkerUpload, AttemptFails, Unsettled, TypeOK, WorkerType
  <2>5. CASE WorkerWrite(w)
    BY <1>2, <2>5
    DEF WorkerWrite, AttemptFails, Unsettled, Settled, TypeOK, WorkerType, RowType
  <2>6. CASE WorkerMarkFailed(w)
    BY <1>2, <2>6 DEF WorkerMarkFailed, Settled, TypeOK, RowType
  <2>7. CASE WorkerFinish(w)
    BY <1>2, <2>7 DEF WorkerFinish, Unsettled
  <2>8. CASE WorkerLosesJob(w)
    BY <1>2, <2>8 DEF WorkerLosesJob
  <2>9. QED BY <2>1, <2>2, <2>3, <2>4, <2>5, <2>6, <2>7, <2>8, WorkerFrame DEF WorkerStep
<1>3. QED BY <1>1, <1>2 DEF Backed

\* A step keeps every confirmed video backed by a job.
LEMMA StrandNext ==
  ASSUME TypeOK, LockInv, LockInv', WorkerInv, StrandInv, [Next]_vars
  PROVE  StrandInv'
<1> SUFFICES ASSUME NEW v \in Video, v \notin lost', status'[v] = "PROCESSING" \/ Pushed(v)'
             PROVE  Backed(v)'
  BY DEF StrandInv
<1>1. v \notin lost
  BY OtherFrame DEF HardDeleteRead, HardDeleteObject, HardDeleteRow, ConfirmSignal,
     ConfirmAbort, WorkerSignal, WorkerMarkFailed, WorkerLosesJob, objVars
<1>2. status'[v] \notin Settled
  BY DEF Pushed, LockInv, InTxn, Settled
<1>3. CASE status[v] = "PROCESSING" \/ Pushed(v)
  <2>1. status[v] \in Live BY <1>3 DEF Pushed, LockInv, InTxn, Live
  <2>2. Backed(v) BY <1>1, <1>3 DEF StrandInv
  <2>3. QED BY <1>2, <2>1, <2>2, BackedStep
<1>4. ASSUME NEW r \in Request, ConfirmPush(r), rvideo[r] = v PROVE Backed(v)'
  <2>1. Len(queue) + 1 \in DOMAIN queue' /\ queue'[Len(queue) + 1] = v
    BY <1>4, PushFacts DEF ConfirmPush, TypeOK
  <2>2. QED BY <2>1 DEF Backed, InQueue
<1>5. \/ status[v] = "PROCESSING" \/ Pushed(v)
      \/ \E r \in Request : ConfirmPush(r) /\ rvideo[r] = v
  <2>1. CASE status'[v] = "PROCESSING"
    BY <2>1, RowFrame
    DEF rowVars, InitUpload, DeleteVideo, HardDeleteRow, ConfirmCommit, WorkerWrite,
        WorkerMarkFailed, TypeOK, RowType, Pushed
  <2>2. ASSUME NEW r \in Request, rpc'[r] = "pushed", rvideo'[r] = v
        PROVE  (rpc[r] = "pushed" /\ rvideo[r] = v) \/ (ConfirmPush(r) /\ rvideo[r] = v)
    BY <2>2, RequestFrame
    DEF reqVars, ConfirmStep, ConfirmLock, ConfirmCheckSize, ConfirmCheckSignature,
        ConfirmPush, ConfirmCommit, ConfirmSignal, ConfirmAbort, Rollback, TypeOK, RequestType
  <2>3. QED BY <2>1, <2>2 DEF Pushed
<1>6. QED BY <1>3, <1>4, <1>5

\* While a row says PROCESSING its job is on the list or with a worker, unless
\* a worker lost it: pushing before committing strands no confirmed video.
THEOREM NothingStranded == Spec => []NoStrandedVideo
<1>1. Init => StrandInv BY DEF Init, StrandInv, Pushed
<1>2. TypeOK /\ LockInv /\ LockInv' /\ WorkerInv /\ StrandInv /\ [Next]_vars => StrandInv'
  BY StrandNext
<1>3. StrandInv => NoStrandedVideo
  BY DEF StrandInv, NoStrandedVideo, Backed, InQueue, Unsettled, HasJob
<1>4. QED BY <1>1, <1>2, <1>3, TypeCorrect, LockInvariant, WorkerInvariant, PTL DEF Spec
----------------------------------------------------------------------------
(* One job per upload. *)

\* The three ways to have two jobs, excluded for v.
Single(v) ==
  /\ \A i, j \in DOMAIN queue : queue[i] = v /\ queue[j] = v => i = j
  /\ \A w, x \in Worker : wjob[w] = v /\ wjob[x] = v => w = x
  /\ \A i \in DOMAIN queue, w \in Worker : ~(queue[i] = v /\ wjob[w] = v)

Held(v) == \E w \in Worker : wjob[w] = v

\* A job without an aborted confirmation behind it was pushed by the
\* transaction that has committed, or by the one that is about to.
JobInv ==
  \A v \in Video : orphans[v] = 0 =>
    /\ Single(v)
    /\ InQueue(v) \/ Held(v) => status[v] \notin {"absent", "DRAFT"} \/ Pushed(v)

\* The videos on the list and in hand after a step other than a push.
LEMMA JobsShrink ==
  ASSUME TypeOK, [Next]_vars, NEW v \in Video, \A r \in Request : ~(ConfirmPush(r) /\ rvideo[r] = v),
         Single(v)
  PROVE  Single(v)' /\ (InQueue(v)' \/ Held(v)' => InQueue(v) \/ Held(v))
<1> DEFINE Goal == Single(v)' /\ (InQueue(v)' \/ Held(v)' => InQueue(v) \/ Held(v))
<1>1. ASSUME NEW r \in Request, ConfirmPush(r) PROVE Goal
  <2>1. rvideo[r] \in Video /\ rvideo[r] # v BY <1>1 DEF ConfirmPush, TypeOK, RequestType
  <2>2. \A i \in DOMAIN queue' : queue'[i] = v => i \in DOMAIN queue /\ queue[i] = v
    BY <1>1, <2>1, PushFacts DEF ConfirmPush, TypeOK
  <2>3. UNCHANGED wjob BY <1>1 DEF ConfirmPush, wrkVars
  <2>4. QED BY <2>2, <2>3 DEF Single, InQueue, Held
<1>2. ASSUME NEW w \in Worker, WorkerPop(w) PROVE Goal
  <2>1. /\ queue \in Seq(Video) /\ queue # <<>> /\ queue' = Tail(queue)
        /\ wjob' = [wjob EXCEPT ![w] = queue[1]] /\ 1 \in DOMAIN queue
    BY <1>2, PopFacts DEF WorkerPop, TypeOK
  <2>2. \A i \in DOMAIN queue' : /\ queue'[i] = queue[i + 1] /\ i + 1 \in DOMAIN queue
                                /\ i \in Nat /\ i + 1 # 1
    BY <2>1, PopFacts
  <2>3. wjob'[w] = queue[1] /\ \A x \in Worker \ {w} : wjob'[x] = wjob[x]
    BY <2>1 DEF TypeOK, WorkerType
  <2>4. \A i, j \in DOMAIN queue' : queue'[i] = v /\ queue'[j] = v => i = j
    BY <2>2 DEF Single
  <2>5. \A x, y \in Worker : wjob'[x] = v /\ wjob'[y] = v => x = y
    BY <2>1, <2>3 DEF Single
  <2>6. \A i \in DOMAIN queue', x \in Worker : ~(queue'[i] = v /\ wjob'[x] = v)
    BY <2>1, <2>2, <2>3 DEF Single
  <2>7. InQueue(v)' \/ Held(v)' => InQueue(v) \/ Held(v)
    BY <2>1, <2>2, <2>3 DEF InQueue, Held
  <2>8. QED BY <2>4, <2>5, <2>6, <2>7 DEF Single
<1>3. ASSUME UNCHANGED queue, \A w \in Worker : ~WorkerPop(w) PROVE Goal
  <2>1. \A x \in Worker : wjob'[x] = v => wjob[x] = v
    BY <1>3, WorkerFrame, NullAssumption
    DEF wrkVars, WorkerStep, WorkerRead, WorkerMedia, WorkerUpload, WorkerWrite,
        WorkerSignal, WorkerMarkFailed, WorkerFinish, WorkerLosesJob, TypeOK, WorkerType
  <2>2. QED BY <1>3, <2>1 DEF Single, InQueue, Held
<1>4. QED BY <1>1, <1>2, <1>3, QueueFrame

\* A step keeps JobInv.
LEMMA JobNext == ASSUME TypeOK, LockInv, JobInv, [Next]_vars PROVE JobInv'
<1> SUFFICES ASSUME NEW v \in Video, orphans'[v] = 0
             PROVE  /\ Single(v)'
                    /\ InQueue(v)' \/ Held(v)'
                         => status'[v] \notin {"absent", "DRAFT"} \/ Pushed(v)'
  BY DEF JobInv
<1>1. orphans[v] = 0 /\ \A r \in Request : rpc[r] = "pushed" /\ rvideo[r] = v => ~ConfirmAbort(r)
  <2>1. ASSUME NEW r \in Request, ConfirmAbort(r)
        PROVE  orphans[v] = 0 /\ (rpc[r] = "pushed" => rvideo[r] # v)
    BY <2>1, OrphansAssumption DEF ConfirmAbort, TypeOK, OtherType
  <2>2. orphans[v] = 0
    BY <2>1, OtherFrame DEF HardDeleteRead, HardDeleteObject, HardDeleteRow, ConfirmSignal,
       WorkerSignal, WorkerMarkFailed, WorkerLosesJob
  <2>3. QED BY <2>1, <2>2
<1>2. Single(v) /\ (InQueue(v) \/ Held(v) => status[v] \notin {"absent", "DRAFT"} \/ Pushed(v))
  BY <1>1 DEF JobInv
<1>3. ASSUME NEW r \in Request, ConfirmPush(r), rvideo[r] = v
      PROVE  Single(v)' /\ Pushed(v)'
  <2>1. ~Pushed(v) /\ status[v] = "DRAFT"
    BY <1>3 DEF Pushed, ConfirmPush, LockInv, InTxn
  <2>2. ~InQueue(v) /\ ~Held(v) BY <1>2, <2>1
  <2>3. \A i \in DOMAIN queue' : queue'[i] = v => i = Len(queue) + 1
    BY <1>3, <2>2, PushFacts DEF ConfirmPush, TypeOK, InQueue
  <2>4. UNCHANGED wjob BY <1>3 DEF ConfirmPush, wrkVars
  <2>5. Single(v)' BY <2>2, <2>3, <2>4 DEF Single, Held
  <2>6. Pushed(v)' BY <1>3 DEF Pushed, ConfirmPush, TypeOK, RequestType
  <2>7. QED BY <2>5, <2>6
<1>4. ASSUME \A r \in Request : ~(ConfirmPush(r) /\ rvideo[r] = v)
      PROVE  /\ Single(v)'
             /\ InQueue(v)' \/ Held(v)'
                  => status'[v] \notin {"absent", "DRAFT"} \/ Pushed(v)'
  <2>1. Single(v)' /\ (InQueue(v)' \/ Held(v)' => InQueue(v) \/ Held(v))
    BY <1>2, <1>4, JobsShrink
  <2>2. status[v] \notin {"absent", "DRAFT"} => status'[v] \notin {"absent", "DRAFT"}
    BY StatusStep DEF Forward, Settled
  <2>3. ASSUME NEW r \in Request, rpc[r] = "pushed", rvideo[r] = v
        PROVE  status'[v] \notin {"absent", "DRAFT"} \/ Pushed(v)'
    <3>1. CASE ConfirmCommit(r)
      BY <2>3, <3>1 DEF ConfirmCommit, TypeOK, RowType
    <3>2. CASE ~ConfirmCommit(r)
      <4>1. rpc'[r] = "pushed" /\ rvideo'[r] = v
        BY <1>1, <2>3, <3>2, RequestFrame
        DEF reqVars, ConfirmStep, ConfirmLock, ConfirmCheckSize, ConfirmCheckSignature,
            ConfirmPush, ConfirmCommit, ConfirmSignal, ConfirmAbort, Rollback, TypeOK,
            RequestType
      <4>2. QED BY <4>1 DEF Pushed
    <3>3. QED BY <3>1, <3>2
  <2>4. QED BY <1>2, <2>1, <2>2, <2>3 DEF Pushed
<1>5. QED BY <1>3, <1>4

\* However many confirmations of one upload run at once, there is at most one
\* job for it unless a confirmation died between its push and its commit.
THEOREM OneJob == Spec => []OneJobPerUpload
<1>1. Init => JobInv
  BY NullAssumption DEF Init, JobInv, Single, InQueue, Held
<1>2. TypeOK /\ LockInv /\ JobInv /\ [Next]_vars => JobInv' BY JobNext
<1>3. JobInv => OneJobPerUpload BY DEF JobInv, Single, OneJobPerUpload
<1>4. QED BY <1>1, <1>2, <1>3, TypeCorrect, LockInvariant, PTL DEF Spec
=============================================================================
