----------------------------- MODULE RateLimits -----------------------------
(***************************************************************************)
(* The limits on what one user or one address may ask for in a window:     *)
(* rate_limiter.rs with Redis counters, its users in the upload, download, *)
(* keyboard, websocket and report handlers, and the in-process limiter in  *)
(* front of the code exchange (middleware/rate_limit.rs).                  *)
(*                                                                         *)
(* A Redis command is a step of its own: GET, INCR and EXPIRE of one       *)
(* request interleave with those of another, any of them can fail, and a   *)
(* request can be dropped at every await.  The endpoints share no key, so  *)
(* a behaviour is about one of them, chosen at the start:                  *)
(*   "requests"  check_and_increment of one key after the other            *)
(*   "download"  a request limit and a byte limit, each GET then INCR      *)
(*   "refresh"   a request limit only                                      *)
(*   "upload"    the byte quota read by init_upload, charged by confirm    *)
(*   "otc"       the limiter in memory, under a lock                       *)
(***************************************************************************)
EXTENDS Naturals, FiniteSets

CONSTANTS Call,       \* requests being served
          Upload,     \* rows of videos made by uploads
          NoCall, NoUpload,
          MaxCount,   \* max_count: requests per window
          MaxBytes,   \* bytes per window
          MaxSize,    \* max_file_size_bytes
          Tolerance,  \* upload_size_tolerance_bytes
          MaxFaults   \* bound: failed commands and dropped requests

ASSUME LimitAssumption ==
  /\ IsFiniteSet(Call) /\ Call # {} /\ IsFiniteSet(Upload) /\ NoCall \notin Call /\ NoUpload \notin Upload
  /\ MaxCount \in Nat \ {0} /\ MaxBytes \in Nat
  /\ MaxSize \in Nat \ {0} /\ Tolerance \in Nat /\ MaxFaults \in Nat

Endpoint == {"requests", "download", "refresh", "upload", "otc"}
Key == {"count", "other", "bytes"}
Size == 1 .. MaxSize

VARIABLES
  endpoint,  \* the endpoint this behaviour is about
  counter,   \* the Redis counters; 0 when there is no key
  ttl,       \* keys with an expiry
  pc, key, size, draft, bypass,  \* the calls: position and locals
  status,    \* videos.status of each upload, "none" before the insert
  declared,  \* videos.size_bytes
  lock,      \* the confirmation that holds the row
  attempts,  \* the in-process counter, of the window `age`
  age,       \* "open", "over" (one window old) or "old" (two)
  faults,    \* failures so far
  served,    \* history: what was let through since the key was created
  lost,      \* history: keys that never got their expiry
  peak,      \* history: the most bytes of other uploads open when one was let in
  slack      \* history: bytes that were let in unmeasured or charged twice

redisVars == <<counter, ttl, served, lost>>
callVars == <<pc, key, size, draft, bypass>>
rowVars == <<status, declared, lock>>
otcVars == <<attempts, age>>
quotaVars == <<peak, slack>>
vars == <<endpoint, redisVars, callVars, rowVars, otcVars, faults, quotaVars>>

Place == {"idle", "incr", "expire", "bandwidth", "charge", "expireBytes", "count",
          "expireCount", "insert", "commit"}

\* Only keys that exist expire.
RedisType ==
  /\ counter \in [Key -> Nat] /\ served \in [Key -> Nat]
  /\ ttl \subseteq {k \in Key : counter[k] > 0} /\ lost \subseteq Key \ ttl

CallType ==
  /\ pc \in [Call -> Place] /\ key \in [Call -> Key]
  /\ size \in [Call -> 0 .. MaxSize] /\ draft \in [Call -> Upload \cup {NoUpload}]
  /\ bypass \subseteq Call

\* A row lock belongs to the confirmation at work on that upload, which is still
\* a DRAFT.
RowType ==
  /\ status \in [Upload -> {"none", "DRAFT", "PROCESSING"}]
  /\ declared \in [Upload -> 0 .. MaxSize]
  /\ lock \in [Upload -> Call \cup {NoCall}]
  /\ \A d \in Upload : lock[d] # NoCall => draft[lock[d]] = d /\ status[d] = "DRAFT"

\* Every variable has its type.
TypeOK ==
  /\ RedisType /\ CallType /\ RowType
  /\ endpoint \in Endpoint
  /\ attempts \in 0 .. MaxCount /\ age \in {"open", "over", "old"}
  /\ faults \in 0 .. MaxFaults
  /\ peak \in Nat /\ slack \in Nat

Init ==
  /\ endpoint \in Endpoint
  /\ counter = [k \in Key |-> 0] /\ ttl = {}
  /\ pc = [c \in Call |-> "idle"] /\ key = [c \in Call |-> "count"]
  /\ size = [c \in Call |-> 0] /\ draft = [c \in Call |-> NoUpload] /\ bypass = {}
  /\ status = [d \in Upload |-> "none"] /\ declared = [d \in Upload |-> 0]
  /\ lock = [d \in Upload |-> NoCall]
  /\ attempts = 0 /\ age = "open"
  /\ faults = 0
  /\ served = [k \in Key |-> 0] /\ lost = {}
  /\ peak = 0 /\ slack = 0

----------------------------------------------------------------------------
(* Redis, and where a call stands *)

\* A command fails.
Fault == faults < MaxFaults /\ faults' = faults + 1

At(c, place) == pc' = [pc EXCEPT ![c] = place]

Return(c) ==
  /\ At(c, "idle")
  /\ key' = [key EXCEPT ![c] = "count"]
  /\ size' = [size EXCEPT ![c] = 0]
  /\ draft' = [draft EXCEPT ![c] = NoUpload]
  /\ bypass' = bypass \ {c}
  /\ lock' = [d \in Upload |-> IF lock[d] = c THEN NoCall ELSE lock[d]]

\* INCRBY: creates the key without an expiry if there is none.
Incr(k, n) ==
  /\ counter' = [counter EXCEPT ![k] = @ + n]
  /\ served' = [served EXCEPT ![k] = @ + n]

\* Let through, but not counted.
Uncounted(k, n) ==
  /\ served' = [served EXCEPT ![k] = @ + n]
  /\ UNCHANGED counter

\* check_rate: the count is compared with the limit.
AtLimit(k) == counter[k] >= MaxCount

\* get_count.
Usage(k) == counter[k]

\* The limiter of an administrator's request lets everything through.
Bypassing(c) == c \in bypass

\* The strict variant of check_and_increment refuses when Redis does.
RefuseStrictly(c) == Fault /\ Return(c) /\ UNCHANGED redisVars

\* EXPIRE: nothing happens to a key that does not exist.
Expire(k) ==
  /\ ttl' = IF counter[k] > 0 THEN ttl \cup {k} ELSE ttl
  /\ lost' = lost \ {k}

\* EXPIRE fails or is never sent: a key without an expiry keeps none.
LoseExpiry(k) ==
  /\ lost' = IF counter[k] > 0 /\ k \notin ttl THEN lost \cup {k} ELSE lost
  /\ UNCHANGED ttl

\* The window of a counter ends.
Lapse(k) ==
  /\ k \in ttl
  /\ counter' = [counter EXCEPT ![k] = 0]
  /\ served' = [served EXCEPT ![k] = 0]
  /\ ttl' = ttl \ {k}
  /\ UNCHANGED <<endpoint, lost, callVars, rowVars, otcVars, faults, quotaVars>>

----------------------------------------------------------------------------
(* check_and_increment and check_and_increment_strict *)

\* Past the first of two keys (keyboard: user and session; websocket and
\* reports: address and user; sign-up: address and ticket) comes the second;
\* past the last the request is served.
NextKey(c) ==
  \/ /\ key[c] = "count"
     /\ key' = [key EXCEPT ![c] = "other"]
     /\ At(c, "idle")
     /\ UNCHANGED <<size, draft, bypass, lock>>
  \/ Return(c)

\* Mutant: the limit is compared with > instead of >=.
CheckOneTooMany(c) ==
  /\ endpoint = "requests" /\ pc[c] = "idle"
  /\ IF counter[key[c]] > MaxCount
       THEN Return(c) /\ UNCHANGED <<redisVars, faults>>
       ELSE /\ At(c, "incr")
            /\ UNCHANGED <<redisVars, faults, key, size, draft, bypass, lock>>
  /\ UNCHANGED <<endpoint, status, declared, otcVars, quotaVars>>

\* GET.  At the limit the answer is 429.  Without Redis the request passes
\* uncounted, or, with the strict variant, is refused.
Check(c) ==
  /\ endpoint = "requests" /\ pc[c] = "idle"
  /\ \/ /\ IF AtLimit(key[c])
             THEN Return(c)
             ELSE At(c, "incr") /\ UNCHANGED <<key, size, draft, bypass, lock>>
        /\ UNCHANGED <<redisVars, faults>>
     \/ Fault /\ Uncounted(key[c], 1) /\ NextKey(c) /\ UNCHANGED <<ttl, lost>>
     \/ RefuseStrictly(c)
  /\ UNCHANGED <<endpoint, status, declared, otcVars, quotaVars>>

\* INCR; the one that created the key goes on to set its expiry.  An error
\* passes the request on (most callers) or refuses it.
CheckIncr(c) ==
  LET k == key[c] IN
  /\ endpoint = "requests" /\ pc[c] = "incr"
  /\ \/ /\ Incr(k, 1)
        /\ IF counter[k] + 1 = 1
             THEN At(c, "expire") /\ UNCHANGED <<key, size, draft, bypass, lock>>
             ELSE NextKey(c)
        /\ UNCHANGED <<ttl, lost, faults>>
     \/ Fault /\ Uncounted(k, 1) /\ NextKey(c) /\ UNCHANGED <<ttl, lost>>
     \/ RefuseStrictly(c)
  /\ UNCHANGED <<endpoint, status, declared, otcVars, quotaVars>>

\* EXPIRE.
CheckExpire(c) ==
  /\ endpoint = "requests" /\ pc[c] = "expire"
  /\ \/ Expire(key[c]) /\ UNCHANGED faults /\ NextKey(c)
     \/ Fault /\ LoseExpiry(key[c]) /\ (NextKey(c) \/ Return(c))
  /\ UNCHANGED <<endpoint, counter, served, status, declared, otcVars, quotaVars>>

----------------------------------------------------------------------------
(* download_video and refresh_download_url *)

\* check_rate: GET only, 429 at the limit; an error is a 500.  Without a
\* connection the check passes, limit or no limit, and whether the request is
\* then served and counted is up to the connections it asks for later.
DownloadCheck(c) ==
  /\ endpoint \in {"download", "refresh"} /\ pc[c] = "idle"
  /\ \/ ~AtLimit("count") /\ UNCHANGED faults
     \/ Fault
  /\ At(c, IF endpoint = "download" THEN "bandwidth" ELSE "count")
  /\ UNCHANGED <<endpoint, redisVars, key, size, draft, bypass, rowVars, otcVars, quotaVars>>

\* The video, of n bytes, then GET of the bytes so far; an error reads as 0.
DownloadBandwidth(c, n) ==
  /\ pc[c] = "bandwidth"
  /\ \/ counter["bytes"] + n <= MaxBytes /\ UNCHANGED faults
     \/ n <= MaxBytes /\ Fault
  /\ size' = [size EXCEPT ![c] = n]
  /\ At(c, "charge")
  /\ UNCHANGED <<endpoint, redisVars, key, draft, bypass, rowVars, otcVars, quotaVars>>

\* Mutant: the expiry is left to whoever finds the key empty.
DownloadChargeOnly(c) ==
  /\ endpoint = "download" /\ pc[c] = "charge"
  /\ Incr("bytes", size[c])
  /\ At(c, "count")
  /\ UNCHANGED <<endpoint, ttl, lost, faults, key, size, draft, bypass, rowVars, otcVars,
                 quotaVars>>

\* INCRBY; a total equal to the size means the key is new.  On an error the
\* total is taken to be the size.
DownloadCharge(c) ==
  /\ endpoint = "download" /\ pc[c] = "charge"
  /\ \/ /\ Incr("bytes", size[c])
        /\ At(c, IF counter["bytes"] = 0 THEN "expireBytes" ELSE "count")
        /\ UNCHANGED faults
     \/ Fault /\ Uncounted("bytes", size[c]) /\ At(c, "expireBytes")
  /\ UNCHANGED <<endpoint, ttl, lost, key, size, draft, bypass, rowVars, otcVars, quotaVars>>

\* EXPIRE of the byte counter by whoever created it; confirm_upload is next to
\* commit.
ExpireBytes(c) ==
  /\ pc[c] = "expireBytes"
  /\ \/ Expire("bytes") /\ UNCHANGED faults
     \/ Fault /\ LoseExpiry("bytes")
  /\ At(c, IF endpoint = "download" THEN "count" ELSE "commit")
  /\ UNCHANGED <<endpoint, counter, served, key, size, draft, bypass, rowVars, otcVars,
                 quotaVars>>

\* INCR of the request counter, whose error is ignored; a refresh that finds no
\* connection sends neither this nor the EXPIRE ...
DownloadCount(c) ==
  /\ pc[c] = "count"
  /\ \/ /\ \/ Incr("count", 1) /\ UNCHANGED faults
           \/ Fault /\ Uncounted("count", 1)
        /\ At(c, "expireCount")
        /\ UNCHANGED <<key, size, draft, bypass, lock>>
     \/ endpoint = "refresh" /\ Fault /\ Uncounted("count", 1) /\ Return(c)
  /\ UNCHANGED <<endpoint, ttl, lost, status, declared, otcVars, quotaVars>>

\* ... and EXPIRE, every time: the window starts again.
DownloadExpireCount(c) ==
  /\ pc[c] = "expireCount"
  /\ \/ Expire("count") /\ UNCHANGED faults
     \/ Fault /\ LoseExpiry("count")
  /\ Return(c)
  /\ UNCHANGED <<endpoint, counter, served, status, declared, otcVars, quotaVars>>

----------------------------------------------------------------------------
(* The byte quota of uploads *)

\* The bytes of the uploads that are open, and of those about to be, c aside.  A
\* byte is an upload, or the call that makes one, with its place in the file.
OpenBytes == {t \in Upload \X Size : status[t[1]] = "DRAFT" /\ t[2] <= declared[t[1]]}
ComingBytes == {t \in Call \X Size : pc[t[1]] = "insert" /\ t[2] <= size[t[1]]}

OtherOpen(c) == Cardinality(OpenBytes) + Cardinality({t \in ComingBytes : t[1] # c})

\* init_upload and init_anonymous_upload: get_count, whose errors read as 0, and
\* the hour's limit, half of it for an anonymous upload.  For an administrator
\* (as_user_init_upload) there is no limit.
UploadRead(c, n) ==
  /\ endpoint = "upload" /\ pc[c] = "idle"
  /\ \/ /\ \E limit \in {MaxBytes, MaxBytes \div 2} : Usage("bytes") + n <= limit
        /\ peak' = IF OtherOpen(c) > peak THEN OtherOpen(c) ELSE peak
        /\ UNCHANGED <<faults, slack>>
     \/ n <= MaxBytes /\ Fault /\ slack' = slack + n /\ UNCHANGED peak
  /\ size' = [size EXCEPT ![c] = n]
  /\ At(c, "insert")
  /\ UNCHANGED <<endpoint, redisVars, key, draft, bypass, rowVars, otcVars>>

\* The DRAFT row.
InsertDraft(d, n) ==
  /\ status[d] = "none"
  /\ status' = [status EXCEPT ![d] = "DRAFT"]
  /\ declared' = [declared EXCEPT ![d] = n]

UploadInsert(c, d) ==
  /\ pc[c] = "insert"
  /\ InsertDraft(d, size[c])
  /\ Return(c)
  /\ UNCHANGED <<endpoint, redisVars, otcVars, faults, quotaVars>>

AdminInit(d, n) ==
  /\ endpoint = "upload"
  /\ InsertDraft(d, n)
  /\ slack' = slack + n
  /\ UNCHANGED <<endpoint, redisVars, callVars, lock, otcVars, faults, peak>>

\* Mutant: the row is read without FOR UPDATE.
ConfirmLockUnlocked(c, d, n) ==
  /\ endpoint = "upload" /\ pc[c] = "idle"
  /\ status[d] = "DRAFT"
  /\ n <= declared[d] + Tolerance /\ declared[d] <= n + Tolerance
  /\ lock' = [lock EXCEPT ![d] = c]
  /\ draft' = [draft EXCEPT ![c] = d]
  /\ size' = [size EXCEPT ![c] = n]
  /\ UNCHANGED bypass
  /\ At(c, "charge")
  /\ UNCHANGED <<endpoint, redisVars, key, status, declared, otcVars, faults, quotaVars>>

\* confirm_upload, by the user or by an administrator for him, locks a DRAFT row
\* and checks the object, whose size may differ from the declared one by the
\* tolerance.
ConfirmLock(c, d, n) ==
  /\ endpoint = "upload" /\ pc[c] = "idle"
  /\ status[d] = "DRAFT" /\ lock[d] = NoCall
  /\ n <= declared[d] + Tolerance /\ declared[d] <= n + Tolerance
  /\ lock' = [lock EXCEPT ![d] = c]
  /\ draft' = [draft EXCEPT ![c] = d]
  /\ size' = [size EXCEPT ![c] = n]
  /\ bypass' \in {bypass, bypass \cup {c}}
  /\ At(c, "charge")
  /\ UNCHANGED <<endpoint, redisVars, key, status, declared, otcVars, faults, quotaVars>>

\* increment_by, before the job is pushed and the row committed; its error is
\* ignored, and with the bypass there is no charge.
ConfirmCharge(c) ==
  LET n == size[c]
      more == IF n > declared[draft[c]] THEN n - declared[draft[c]] ELSE 0
  IN /\ endpoint = "upload" /\ pc[c] = "charge"
     /\ \/ /\ ~Bypassing(c)
           /\ Incr("bytes", n)
           /\ At(c, IF counter["bytes"] = 0 THEN "expireBytes" ELSE "commit")
           /\ slack' = slack + more
           /\ UNCHANGED faults
        \/ /\ \/ Bypassing(c) /\ UNCHANGED faults
              \/ ~Bypassing(c) /\ Fault
           /\ At(c, "commit")
           /\ UNCHANGED <<counter, served, slack>>
     /\ UNCHANGED <<endpoint, ttl, lost, key, size, draft, bypass, rowVars, otcVars, peak>>

\* The row becomes PROCESSING.
ConfirmCommit(c) ==
  /\ pc[c] = "commit"
  /\ status' = [status EXCEPT ![draft[c]] = "PROCESSING"]
  /\ Return(c)
  /\ UNCHANGED <<endpoint, redisVars, declared, otcVars, faults, quotaVars>>

----------------------------------------------------------------------------
\* An error answer or a dropped request: what Redis has been told stays.  A
\* confirmation that had charged will charge again when it is repeated.
CallCut(c) ==
  /\ pc[c] # "idle"
  /\ Fault
  /\ IF pc[c] \in {"expire", "expireBytes", "expireCount"}
       THEN LoseExpiry(CASE pc[c] = "expire" -> key[c]
                         [] pc[c] = "expireBytes" -> "bytes"
                         [] OTHER -> "count")
       ELSE UNCHANGED <<ttl, lost>>
  /\ slack' = IF endpoint = "upload" /\ pc[c] \in {"commit", "expireBytes"}
               THEN slack + size[c] ELSE slack
  /\ Return(c)
  /\ UNCHANGED <<endpoint, counter, served, status, declared, otcVars, peak>>

----------------------------------------------------------------------------
(* The limiter in memory *)

\* check_rate_limit: the whole of it under the write lock.
OtcAttempt ==
  /\ endpoint = "otc"
  /\ IF age # "open"
       THEN attempts' = 1 /\ age' = "open"
       ELSE attempts < MaxCount /\ attempts' = attempts + 1 /\ UNCHANGED age
  /\ UNCHANGED <<endpoint, redisVars, callVars, rowVars, faults, quotaVars>>

WindowEnds ==
  /\ endpoint = "otc" /\ attempts > 0
  /\ age' = IF age = "open" THEN "over" ELSE "old"
  /\ UNCHANGED <<endpoint, attempts, redisVars, callVars, rowVars, faults, quotaVars>>

\* cleanup forgets entries two windows old.
OtcCleanup ==
  /\ endpoint = "otc" /\ age = "old"
  /\ attempts' = 0 /\ age' = "open"
  /\ UNCHANGED <<endpoint, redisVars, callVars, rowVars, faults, quotaVars>>

----------------------------------------------------------------------------
\* What a request does once it has begun.
Proceed(c) ==
  \/ CheckIncr(c) \/ CheckExpire(c)
  \/ \E n \in Size : DownloadBandwidth(c, n)
  \/ DownloadCharge(c) \/ ExpireBytes(c) \/ DownloadCount(c) \/ DownloadExpireCount(c)
  \/ \E d \in Upload : UploadInsert(c, d)
  \/ ConfirmCharge(c) \/ ConfirmCommit(c)

Next ==
  \/ \E c \in Call :
       \/ Check(c) \/ DownloadCheck(c) \/ Proceed(c) \/ CallCut(c)
       \/ \E n \in Size : UploadRead(c, n) \/ \E d \in Upload : ConfirmLock(c, d, n)
  \/ \E d \in Upload, n \in Size : AdminInit(d, n)
  \/ \E k \in Key : Lapse(k)
  \/ OtcAttempt \/ WindowEnds \/ OtcCleanup

Spec == Init /\ [][Next]_vars

\* The runtime polls the requests it has accepted, and time passes: a window
\* ends although EXPIRE renews it, since only a request below the limit does.
Fairness ==
  /\ \A c \in Call : WF_vars(Proceed(c))
  /\ \A k \in Key : WF_vars(Lapse(k))
  /\ WF_vars(WindowEnds)

FairSpec == Spec /\ Fairness
----------------------------------------------------------------------------
(* Properties. *)

Racing == Cardinality(Call) - 1

\* The limits are read in one command and counted in another, so concurrent
\* requests exceed them: by fewer requests (or files) than there are, each
\* failed command adding one; uploads by what was already open when the last
\* one was let in, and by what a repeated confirmation charges again.  The
\* limiter in memory is exact (TypeOK).
OvershootBounded ==
  /\ \A k \in {"count", "other"} : served[k] <= MaxCount + Racing + faults
  /\ endpoint = "download" => served["bytes"] <= MaxBytes + (Racing + faults) * MaxSize
  /\ endpoint = "upload" => counter["bytes"] <= MaxBytes + peak + slack

\* Nobody stays limited: every counter goes away, unless the one command that
\* would have given it an expiry was lost.
LimitedLapses ==
  /\ \A k \in Key : counter[k] > 0 ~> counter[k] = 0 \/ k \in lost
  /\ attempts = MaxCount ~> age # "open"
=============================================================================
