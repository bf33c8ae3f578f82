# Verification of the memegy backend

TLA+ models of the concurrent parts of this backend, the TLC runs that check
them on small instances, and TLAPS proofs of what matters most. Paths below
are relative to the repository (`src/api/src/...`, `src/worker/src/...`,
`src/shared/src/...`). `PROJECT.json` maps every definition to its lines and lists runs,
mutants, findings, hazards and theorems.

## 1. The system

Three programs share a Postgres database, a Redis-compatible store and an S3
bucket pair (raw and public):

* the **API** (axum): stateless request handlers on a multi-threaded runtime,
  any number of them at once; a handler is cancelled when its client goes away;
* the **worker**: one task that takes video jobs from a Redis list, one for
  bulk-download jobs with an hourly clean-up, one that purges deleted accounts;
* the **shared** crate: entities, migrations, the Redis queue and pub/sub, storage.

Nothing spans two stores: a handler is a sequence of single statements, with a
database transaction around some of them. Every `.await` between two statements is a place
where another request, the worker, an expiring key, a failure or a
cancellation can come in. The models take that as their grain: one action per
statement (or per stretch of statements that no other actor can observe).

### Inventory

| component | state it keeps | operations | what makes it correct |
|---|---|---|---|
| Video pipeline (`videos/handlers.rs`, `worker/src/main.rs`, `shared/src/queue.rs`) | `videos` row, raw and public object, job list | init, confirm, pop, process with retries, fail, soft and hard delete | published means there is media; a confirmed upload has one job and gets an outcome; signals do not run ahead of the row |
| Realtime (`realtime/*.rs`, `users/handlers.rs`) | hub entries, per-connection buffers, the pub/sub channel | register, snapshot, fan-out, forward, expire, close | a client's stream has no gap, duplicate or inversion; nothing falls between snapshot and live events |
| Session tokens (`auth/service.rs`, `auth/revocation.rs`) | `refresh_tokens` rows, access-token blacklist | issue, refresh with rotation and grace, reuse detection, logout | a wiped login stays out; the access token a refresh was asked with is revoked |
| Sign-up (`auth/handlers.rs`, `cache/otc_cache.rs`) | one-time codes, sign-up tickets, lock, cached result, `users` rows | OAuth callback, exchange, complete | one session per ticket; an answered completion is final; a code is answered once; locks released by their owners |
| Send tickets (`videos/handlers.rs`) | `send_tickets` rows, nonce keys | create, redeem, expire, hard delete | a ticket gives out one URL; a nonce makes one ticket; daily cap |
| Bulk downloads (`videos/handlers.rs`, `worker/src/bulk_download.rs`) | `download_jobs` rows, job list, archives | create, push, process with retries, clean up, hard delete | completed means there is an archive of the videos that are left, and stays so; every job resolves |
| Rate limiter and upload quota (`services/rate_limiter.rs`, middleware) | counters with expiry | check, increment, check-and-increment | limits exceeded by a bounded amount only; counters lapse |
| Bans (`services/ban_service.rs`) | ban rows, cache in front of them | check, ban, lift, IP and CIDR bans | one row in force; a ban takes effect, a lift takes effect, whatever is cached |
| Reports and moderation (`services/abuse_report_service.rs`) | reports, moderation state and log | report, auto-quarantine, resolve, act | severe reports are counted; what was decided stays decided |
| Feed, search and list caches (`cache/feed_cache.rs`, handlers) | cached pages | fill, invalidate, expire | a page does not outlive the change that made it wrong |
| Likes (`videos/handlers.rs`) | like rows, `like_count` | like, unlike | the counter is the number of rows |
| Accounts (`users/handlers.rs`, `auth/service.rs`, `worker/src/account_cleanup.rs`) | `users` row, sessions, cached profile, raw and public objects | log in and recover, delete, rename, onboard, purge, hard delete | a deleted account is signed out; the profile served is the row; a purge leaves nothing that the rows name and takes nothing in use |
| Admin API (`admin/handlers.rs`) | audit log | hard deletes, as-user calls | same rules as the components it acts on |

How they meet: `confirm_upload` commits a row, pushes a job and publishes a
signal; the worker pops the job, commits the outcome and publishes; the hub's subscriber
turns signals into websocket messages. Login and sign-up create the rows whose
rotation `SessionTokens` describes. Moderation and deletion change the videos
that send tickets and bulk downloads read, and invalidate the pages that list them. A
ban is checked before every request and wipes the sessions of its user. The administrator's hard deletes
cut across all of them.

Hard behaviours: transactions that are not serialisable (READ COMMITTED reads
without locks), effects outside the transaction (pushes, objects, cache
writes), check-then-act across statements, keys that lapse while their owner
works, retries by clients and by the worker, lost jobs and dropped requests.
Each is listed at its line under `hazards`.

## 2. Modules

| module | models | state → code | checked by |
|---|---|---|---|
| `VideoPipeline` | upload to outcome | row columns as committed, row lock, objects, list; `rpc`/`wpc` are positions in `confirm_upload` and in the worker loop | `video_pipeline`, `video_pipeline_retry`; `VideoPipelineProofs` |
| `VideoLifecycle` | what a video's life looks like to its owner (abstract) | status, copy to play, statuses announced | as a property of `video_pipeline` |
| `RealtimeHub` | signals to websocket clients | `registered`, `bootstrapping`, `pending` are the hub's map; `buffer` the mpsc channel; `phase` the position in `handle_ws_connection` | `realtime_stream`; `RealtimeHubProofs` |
| `SessionTokens` | one user's token pairs | committed rows, row locks, blacklist; `pc` the position in `refresh_access_token` or `logout`, `access` the access token presented | `credentials`; `CredentialProofs` |
| `SignUp` | callback, exchange, completion | Redis keys by kind, `users` names, positions in `exchange_otc` and `signup_complete` | `signup`, `code_single_use`; `CredentialProofs` |
| `OneTimeTicket` | what a send ticket promises (abstract) | status and URLs given out | as a property of `credentials` |
| `SendTicket` | creation and redemption | rows, nonce keys, positions in the two handlers | `credentials`; `CredentialProofs` |
| `BulkDownload` | creation, worker, clean-up | rows, list, archives, positions in `create_bulk_download` and `process_job` | `bulk_worker`; `BulkDownloadProofs` |
| `Visibility` | reports, moderation, likes, deletion, metadata and cached pages of one video | `mod`, `mark`, `deleted`, `meta`, `likes` columns of the row; `rep` and `like` tables; `pc`/`loc` positions and locals of the handlers; `cache`, `reader` Redis pages and their fillers | `visibility`, `visibility_pages`; `VisibilityProofs` |
| `RateLimits` | the counters of one limited endpoint | `counter`, `ttl` Redis keys; `pc` and locals the position in the handler; `status`, `declared`, `lock` the rows of uploads; `attempts`, `age` the map of `RateLimitState` | `rate_limits`; `RateLimitsProofs` |
| `Bans` | checks, bans and lifts of one user, or of one address and its range | `row` the tables; `cache`, `verdict`, `version` the Redis keys; `pc`, `place` positions in the checks and in the admin calls | `bans`; `BansProofs` |
| `Accounts` | one account from login to removal | `account`, `name`, `onboarded` the row; `session` the tables of sessions; `profile`, `record` Redis; `rows`, `placed` videos and which of their objects they name; `media` both buckets; `work` the worker's attempt at a video; `call`, `sweep` positions in handlers and clean-up worker | `accounts`; `AccountsProofs` |

`MC*` modules only add symmetry sets and constant functions for TLC; `MCCredentials` also puts
`SessionTokens` and `SendTicket`, which share no state, in one run, each explored with the other at rest. Operators
commented `Mutant:` are the code with a plausible mistake in it; they
are used by no specification, only to see that each property can fail.

Shared conventions: a variable for a table holds its committed state; effects inside an
open transaction are applied at its commit unless another transaction can see
or wait for them; an expiry is an action that may happen at any time its clock
allows; a failure is a disjunct of the action it interrupts; a variable marked
*history* is read by no guard.

### VideoPipeline and VideoLifecycle

`confirm_upload` is `ConfirmLock` (SELECT … FOR UPDATE and the DRAFT check),
`ConfirmCheckSize`, `ConfirmCheckSignature`, `ConfirmPush` (LPUSH, still inside the
transaction), `ConfirmCommit`, `ConfirmSignal`, and `ConfirmAbort` for
cancellation or a failed commit at any of these. The worker is `WorkerPop`,
`WorkerRead`, `WorkerMedia`, `WorkerUpload`, `WorkerWrite`, `WorkerSignal`,
then `WorkerFinish` or `WorkerMarkFailed`; `AttemptFails` is shared by the
steps that can fail and decides on a retry. A hard delete is three steps
(read, object, row). Uploads are abstracted to what the checks tell apart:
wrong size, no container signature, undecodable, valid.

`VideoLifecycle` is the promise to the owner: the status goes forward, an outcome is replaced only by
an outcome, a video is published and announced with a copy to play, a row goes after its object.
`Lifecycle` is that specification under the mapping status → state, public object and hard delete
→ copy, signals → announced. Most steps of the pipeline are stutters of it.

### RealtimeHub

Events are the numbers of a user's status changes; publishers commit, then
publish in any order. `FanoutCollect`, `FanoutSend`, `FanoutFinish` are the
three stretches of `fanout_to_user` between which the mutex is free.
The window the design is about - register, load the snapshot, send it, take
what became pending, go live - is `Register`, `LoadSnapshot`, `SendSnapshot`,
`Bootstrapped`, `SendEvent`. In the loop, `Receive` takes an event out of the channel and `SendEvent`
sends it; a ping or pong is `BeginControl` and `SendControl`. While a send is under way no arm of
the `select!` is looked at (`InLoop`). No send has a timeout: a send to a client that has
stopped reading (`StopReading`, `stalled`) ends only when the client reads again or the socket
fails.

### SessionTokens

A refresh takes the user from whichever access token it is given and looks for the refresh token among
the user's rows; that the two were issued together is never checked, so `RefreshRead` chooses the
access token freely. It reads the rows without a lock, blacklists the access token presented,
inserts the new row, updates the old one (which takes its row lock) and
commits. A wipe is one DELETE over the rows visible at its start; it waits for
locked ones. `family`, `dead` and `escaped` are history: which login a token descends from,
which logins were wiped, and which of those had a refresh under way.

### SignUp

The callback leaves a session or a ticket under a code; it is one step because
both keys it writes are new. `ExchangeGet` and `ExchangeDelete` are the two
commands of `consume_otc`. A completion goes through `SignupStart`/`SignupReplay`,
`SignupLock`, `SignupReRead`, `SignupRead`, `RegisterCheck`, `RegisterFind`,
`RegisterWrite`, `RegisterIssue`, `SignupKeep`, `SignupSpend`, `SignupUnlock`; those
who find the lock taken go to `SignupPoll`. `SignupDropped` is cancellation or
a crash at any point; the lock it leaves becomes `Orphan`, a value no later
request compares equal to. A result lapses only after its ticket: both live
600 s and the result is written later.

### SendTicket and OneTimeTicket

Every creation carries a nonce. `CreateNonce` sets its key, finds it set, is refused with an error
(the key may have been set all the same), or, when no connection to Redis can be had, goes on
without asking. `openings` is history: how often a nonce's key lapsed or was not asked for, each of
which lets one more ticket be made with it; `MaxOpenings` bounds them.

`OneTimeTicket` is the promise: issued once, redeemed or expired, at most one
URL, only after redemption. `SendTicket` is the two handlers statement by
statement; `SingleUse` is the abstract specification under the mapping row
status → state, URLs → served.

### BulkDownload

The two counts, the check of the videos, the insert and the push are separate
steps of a call. The administrator's as-user creation skips the limits. Each worker
process has a job task and a clean-up task (`SweepSelect`, `SweepMark`).

### Visibility

A report is `SubmitBegin`, `SubmitFind`, `SubmitUpdate` or `SubmitInsert` (with the
count of the reporters that the same transaction makes next), `AutoRead` and
`AutoQuarantine` when the rule fires, or `SubmitCommit`. A report inserted but not committed is a row
of life `pending`: others do not count it, but the unique index makes a second
insert by the same reporter wait for it. `ModerateRead`/`ModerateWrite` and
`ResolveRead`/`ResolveWrite` are the administrator's read and write, which no
lock joins. Reasons are abstracted to the three classes the rule tells
apart, ages to inside and outside the window; the purge deletes a prefix of
the old reports, because the retention period is longer than the window. A
cached page (of the feed, of a search, of the owner's own list) is abstracted to whether it
lists the video and with which metadata; each handler clears its own set of pages
(`Cleared`), and any of the commands may fail unnoticed. `past` and `overlap`
are history: what administrators have done to the video, and whether two
filings overlapped; what was decided while a call was in flight.

### RateLimits

A behaviour is about one endpoint, chosen in `Init`, because endpoints share no
key. `Check`, `CheckIncr`, `CheckExpire` are the three commands of
`check_and_increment`; `Bypassing` is the administrators' pass-through state. A
download checks a request count and a byte count and charges both afterwards; when the check finds
no connection it lets the request through, limit or no limit, and the request is charged and counted if
a later command gets through; an upload reads
the byte quota in `init_upload` (`UploadRead`, `UploadInsert`) and charges it in
`confirm_upload`, inside the transaction that may still fail (`ConfirmLock`,
`ConfirmCharge`, `ConfirmCommit`). `served`, `lost`, `peak` and `slack` are history.

### Bans

`is_user_banned_internal` is `UserGet`, `UserDel`, `Query`, `SetFound`; `is_ip_banned_internal`
is `IpGet`, `Query`, `SetFound` and, when the address itself is not banned, `GetVersion`,
`GetVerdict`, `QueryRanges`, `SetVerdict`. A ban or lift is `AdminRead`, `UpsertWrite` or
`LiftWrite`, `WriteCache`, and for addresses `BumpVersion`. The unique index
is `Accepted`. Ends of bans are abstracted to never, to come and past. `settled`
remembers a ban or lift that was cached while no check with an older
answer was under way; `known` the bans in force since a check began.

### Accounts

Logins and deletions are in every behaviour; the other requests are those of its `topic`
(sessions, profile, or media), which share no state but the account. `LoginRead`/`LoginUpdate`
recover only the account they read as deleted. A deletion is `DeleteMark`, `WipeRefresh`,
`WipeExtension`, `DropProfile`, each a statement of its own. `GetMe`, `MeQuery`, `MeStore` fill the cached profile.
A video has up to three objects: the upload in the raw bucket (`raw`), and the copy and the thumbnail the
worker makes in the public one (`copy`, `thumb`). `WorkRead`, `StoreCopy`, `StoreThumb`, `Publish` and `WorkFails` are an
attempt of the worker as far as storage is concerned; `Publish` makes the row name the copy, and
nobody deletes the upload. `Object` is what a row names. The purge is `SweepSelect`, `SweepList`, `SweepErase` per object, `SweepRow`; `hard_delete_user` is the
same without the thumbnails; both list what the rows name and no more. `CallCut` and `SweepCut` end a request or a round anywhere.
Sessions are told apart by how they came about (`Origin`), so that a session
that overlapped a deletion is not taken for one that outlived it.

## 3. Runs

All with two TLC workers, each under three minutes.

| run | instance | shows |
|---|---|---|
| `video_pipeline` | 1 video, 2 confirmations, 2 workers, 2 attempts, 1 orphaned push, fairness | `PublishedHasMedia`, `NoStrandedVideo`, `OneJobPerUpload`, `SignalsFollowCommits`, `Lifecycle`, `ConfirmedResolves` |
| `video_pipeline_retry` | 1 of each | **violated** `FailedOnlyIfAllRetriesFailed` |
| `realtime_stream` | 1 connection that may stop reading, 4 changes, buffer 2, fairness | `GapFreeInOrder`, `SnapshotPlusEvents`, `DoomedIsClosed` |
| `credentials` | 3 token pairs, 2 calls; 3 tickets, 2 calls, 1 nonce, cap 1, 2 openings | `OnlyOverlapSurvives`, `RefreshRevokesAccess`; `SingleUse`, `CreationLimits` |
| `signup` | 2 people, 2 names, 2 tickets, 2 codes, 2 concurrent completions, 1 Redis failure | `OneSessionPerTicket`, `AnsweredIsFinal`, `ReleasedByHolder` |
| `code_single_use` | 1 code, 2 exchanges | **violated** `CodeSingleUse` |
| `bulk_worker` | 1 job, 2 videos, 1 worker process, fairness | `ArchiveIsRight`, `CompletedStays`, `JobsResolve` |
| `visibility` | 2 calls, 2 reporters, 2 reports, threshold 2 | `SevereAreCounted`, `DecisionsStay` |
| `visibility_pages` | 2 calls, 1 user who likes, 1 reader, 2 versions of the metadata, no reports, fairness | `LikesCounted`, `PagesCatchUp` |
| `rate_limits` | 2 requests, 2 uploads, limits 2, sizes up to 2, 1 failure, fairness | `OvershootBounded`, `LimitedLapses` |
| `bans` | 2 checks, 2 administrators, 2 rows, a user or an address or a range, 1 failure | `BanHolds`, `SettledIsRight` |
| `accounts` | 2 requests and both workers, 1 video, 2 names, 1 failure | `DeletedIsSignedOut`, `ProfileFollows`, `PurgeIsRight` |

Each run of a component also checks its type invariant (`TypeOK`, `TokenTypeOK`, `SendTypeOK`);
in `Bans` and `Accounts` it includes what the schema promises (one row in force, unique names, cascades).

### Why the bounds are enough

Rows do not interact with rows of other videos, tickets or jobs except through
limits, names and idempotency keys, so one row, and two or three where a
limit, a name or a key is the subject, shows every conflict. The races are
between pairs (confirm/confirm, confirm/worker, worker/worker, refresh/wipe,
redeem/redeem, completion/completion), so two actors of each kind suffice to
exhibit them; requests can be repeated without bound except in
`credentials` (three pairs: a login, its successor and a second successor
of a fork). `signup` has one exchange at a time, because overlapping exchanges are the subject of
`code_single_use` and touch nothing of a completion but who asks for it. In `realtime_stream` four changes against a buffer of two fill the
pending queue and the channel and still leave one event to lose. A limit of 1
puts the boundary within reach of two calls. `MaxAttempts = 2` and
`MaxRetries = 2` have a first, a last and a retried attempt. `MaxOrphans`, `MaxVersion`, `MaxOpenings`
and `MaxFaults` bound counters that grow without end; `MaxFaults = 1` lets Redis fail
once, at any command of a completion. In `visibility` two reporters meet a
threshold of two, which the second report crosses; `MaxReports = 2` also lets one reporter file again
after a resolution. In `rate_limits` two requests meet a limit of two, so that one can be below it,
one at it and one over it. In `bans` two administrators and two checks cover the pairs ban/lift, ban/ban
and check/either, and two announcements a check that spans one; an address and its range banned
together pass as well, but take longer and add no new outcome. In `accounts` one failure cuts a request or a round
at any point, and videos of one account are erased independently, so one is enough. The proofs do not depend on any of these values.

Deadlock is checked except in the realtime, sign-up, `visibility`, `rate_limits`, `bans` and `accounts` runs,
where bounded sets of connections, versions, codes, tickets, reports and uploads run out or the
video or account is gone; the programs themselves go on.

### Fairness

* `VideoPipeline`: each handler runs until it returns or is cancelled
  (`WF(ConfirmStep \/ ConfirmAbort)` per request), and the worker's loop goes
  on (`WF(WorkerStep)` per worker): both are tasks the runtime polls as long
  as the process lives. Losing a job with its worker is never forced and never
  excluded; `ConfirmedResolves` excuses it.
* `RealtimeHub`: the subscriber task and what a handler does by itself are polled (`WF` each). A send
  progresses when its client reads (`SF` of sending to a client that is not stalled), never because time
  passes: nothing in the code bounds it. `select!` picks at random among the arms that are ready each time it
  is reached, so the arm that receives and the tick that finds the token expired get their turn if they are
  ready again and again (`SF`). Publishers and clients owe nothing. `DoomedIsClosed` is therefore stated
  for connections whose handler is not stuck for good in a send (`[]<>~Stuck(c)`); for the others it is false,
  see section 5.
* `BulkDownload`: both tasks of a worker process are endless loops, an hour
  passes eventually, and the clean-up's own statements are taken to succeed.
* `Visibility`: a handler that has queried a page goes on to store it or gives up, and
  Redis lets every page expire. Administrators, owners and reporters owe nothing.
* `RateLimits`: a request goes on, a key with an expiry lapses (EXPIRE renews it only for
  requests that passed the check, so a full counter is not kept alive while Redis answers) and a window in memory ends.
* Other modules have safety properties only and no fairness.

## 4. Proofs

`VideoPipelineProofs` proves for any sets of videos, requests and workers and
any number of attempts (assuming only that the null values are outside their sets,
`MaxAttempts` is positive and `MaxOrphans` natural):

* `TypeCorrect`: `Spec => []TypeOK`, by parts, one lemma per part of the state and
  frame lemmas for the actions that leave a part alone;
* `LockInvariant`: `LockInv` - whoever is between lock and commit holds the row lock of its video,
  and the row cannot leave DRAFT except by its commit. The point is that the worker's UPDATE of a row
  waits for the confirming transaction although its read does not;
* `WorkerInvariant`: what a worker's position says about row and objects
  (a worker about to write has uploaded the copy; one about to signal has written), which gives
  `PublishedMedia`, and with `LockInv` `SignalsFollow`;
* `FollowsLifecycle` (`Spec => Lifecycle`): `VideoPipeline` implements `VideoLifecycle`. Beside the two
  invariants the simulation needs `CycleInv`: a hard delete under way has its row and removes the object
  first, every job is of an inserted video, and a worker about to announce a publication has made
  the copy. One step per action that touches row, copy or signals; the others stutter (`CycleFrame`);
* `NothingStranded` from `StrandInv`: a pushed but uncommitted job is already on the
  list or with a worker or its row has an outcome, so the commit to PROCESSING cannot strand the row;
* `OneJob` from `JobInv`: without an orphaned push, a DRAFT row that nobody
  has pushed for has no job, and no two holders of the job exist.

None of these properties is inductive alone: each is about committed
state, and needs to know what the transaction in flight has already done.

`RealtimeHubProofs` proves for any users, connections, limits and buffer sizes `TypeCorrect`,
`GapFree` and `NothingBetween`. What the client has received is only the front of what the hub
keeps for it, so `StreamInv` speaks of the whole stream (received, being flushed, pending, in the
channel): it is a run of what was fanned out since `first`, and while the connection is in the hub
it reaches the end of the log, or lacks only the event being fanned out to it. The three
stretches of `fanout_to_user` make that exception necessary; `FanInv` says that
this event is the last of the log and `PlaceInv` where the events of a
connection can be at each phase of its handler - before it goes live only in
`pending`, afterwards never. `SnapshotInv` states `SnapshotPlusEvents` from the moment the
snapshot is loaded, one step before a client can see it.

`CredentialProofs` holds the proofs about the three kinds of credentials a client is given. It
extends the three specifications, whose names are disjoint for that (`TokenInit`, `SendInit`, ...);
they share no state, and no fact of one is used for another.

* Sign-up, for any identities, tickets, codes and requests: `SignUpTypes`, `OneSession`
  (`OneSessionPerTicket`), the action properties `AnswersAreFinal` (`AnsweredIsFinal`) and
  `LockReleased` (`ReleasedByHolder`), and `NoReadAfterAnswer`, what is true of single use: an exchange
  that begins after another was answered reads nothing. Assuming finitely many sessions and that the model values are
  distinct. `LockInv`: the lock's value is a request between lock and release on that ticket, and a
  request there on an unstrained ticket holds the lock; `ResultInv`: the cached result, the answers
  given and the response a request is about to give agree, and a request that is to register finds
  that there are none.
* Session tokens, for any ids and calls: `TokenTypes`, `WipedStaysOut` (`OnlyOverlapSurvives`) and
  `TradedIsRevoked` (`RefreshRevokesAccess`), for whichever access token is presented. A refresh in flight carries a row that is not in the
  table yet, so `FamilyInv` asks of the token it has read what the property asks of the rows; `IdInv`
  keeps the ids of open transactions apart and outside what was issued; `RevokeInv` puts the
  blacklist entry of the token presented before the commit.
* Send tickets, for any tickets, nonces and calls: `ImplementsPromise` (`SendSpec => SingleUse`), i.e.
  `SendTicket` implements `OneTimeTicket`. The inductive invariant is `WinnerInv`: at most one call
  per ticket is past the compare-and-swap and not yet served, and then nothing was served; the
  simulation is one lemma that sorts every step into an abstract step or a stutter. Also
  `TicketTypes` and `CreationLimited` (`CreationLimits`), assuming finite sets of tickets and calls.
  `LimitInv` strengthens both limits: the tickets made with a nonce and the calls under way with it are
  no more than the calls that were let pass, one for the key that is there and one for each opening
  (`NonceInv`), and the rows of today together with the calls past the count stay below `DailyCap`
  plus the number of calls (`CapKinds`: a step adds a call only below the cap, and a row only in
  exchange for such a call).

`BulkDownloadProofs` proves for any jobs, calls, workers and videos (jobs and calls finite)
`TypeCorrect`, `ArchivesAreRight` (`ArchiveIsRight`) and the action property `CompletedIsKept`
(`CompletedStays`). The worker writes a row without looking at its status, so everything rests on
`OwnerInv`: a job is with the call that inserted it, once in the list or with one worker, and
nowhere at all once it is COMPLETED. `WorkInv` is what the position of a worker says about its files.

`BansProofs` proves for any finite sets of checks, administrators' calls and rows `TypeCorrect`,
`SettledStaysRight` (`SettledIsRight`) and `BansHold` (`BanHolds`). `OneRow` is what the unique
indexes give. `SettledInv` extends agreement with the rows from the cache to what every check and
call under way is about to store; `KnownInv` follows a check: what it knew at its start is still in
force, and under the version at which a range was announced nothing stored or about to be stored
says "no ban". `AdminInv` shows that the bound on versions never stops a call half-way.

`VisibilityProofs` proves for any calls, reporters and likers (finite) and any threshold
`TypeCorrect`, `LikesAreCounted` (`LikesCounted`), `ThresholdHolds` (`SevereAreCounted`) and the
action property `DecisionsAreKept` (`DecisionsStay`). The count is made at one statement and takes
effect at a later one, so `CountInv` says that a transaction that found too few reporters is
still right when it commits, its own uncommitted report included, unless another filing overlapped;
that needs `RefInv` (which row a call refers to, and that no two transactions hold the same one).
`OverlapInv` keeps on a call's record what was decided behind its back, which is what
`DecisionsStay` excuses.

`RateLimitsProofs` proves for any finite sets of requests and uploads, any limits and any number of
failures `LimitTypes` and `OvershootIsBounded` (`OvershootBounded`). The requests that have read a
counter and not yet counted are what the bounds leave out. `CountInv` adds them: what was served and
who is past the check (`Past`) are together within the bound, because a request passes only while
the counter is below the limit and at most `Racing` others are past it. Bytes are not as even:
`ByteInv` says that the downloads that are due fit with a file each, or that one of them fits with
its own size, the one it was let in with, and the others with a file each. `QuotaInv` balances the
upload quota: what is charged, what DRAFT rows still owe and what is about to be inserted stay
within the limit plus the two excuses of the property; `LockInv` ties each confirmation to the one
row it charges for. Sums over uploads are stated as cardinalities of sets of byte tokens (`OpenBytes`,
`ComingBytes`, `Uncharged`), which turns the induction a sum would need into one application of the
library's theorems on unions and intervals (`BytesOf`). That there is a request at all
(`Call # {}`) had to be assumed: the bound on bytes is stated relative to the racing others.

`AccountsProofs` proves for any requests, names and videos `AccountTypes`, `DeletionSignsOut`
(`DeletedIsSignedOut`), `ServedProfileFollows` (`ProfileFollows`) and `PurgesAreRight`
(`PurgeIsRight`). `SignedOutInv` is the first kind by kind, while the wipe of a deletion is under
way; it needs `RequestInv`, that a request about to insert a session found the account in use.
`CopyInv` extends the agreement of the cached profile to what every `get_me` under way is about to
store. `BucketInv` says of each removal under way that whatever in the buckets the rows name is still on
its list or excused, and that a removed account leaves nothing its rows named but what is excused; `SweepInv` that an account in use which is being swept came back, and that
nothing is missing before a removal has begun to erase.

Each inductive invariant was checked by TLC as an invariant of the module's run before it was proved.

Only model-checked: everything under fairness (liveness and ENABLED are outside the prover), that
is the temporal properties of the runs, `LimitedLapses` among them; and the violations of
`video_pipeline_retry` and `code_single_use`.

## 5. Findings

* **A published video is marked FAILED** (`worker/src/main.rs:203`, run
  `video_pipeline_retry`): `last_error` survives a retry that succeeds, and
  the branch after the loop tests it.
* **A one-time code can be answered twice** (`cache/otc_cache.rs:82`, run `code_single_use`):
  `consume_otc` reads and deletes the code in two commands, although its comments (lines 75 and 85, and
  `auth/handlers.rs:1136`) say atomically and single-use. What holds is proved as `NoReadAfterAnswer`.

Seen while modelling, and visible as reachable behaviour of the models, without a run of their own:

* Sessions. A refresh token is accepted with any access token of its user (`auth/service.rs:337-369`), and
  only the one presented is blacklisted (line 410): the access token issued with the exchanged refresh
  token stays valid until it expires if another was presented. A refresh that overlaps a logout survives it (`auth/service.rs:452`; `openapi.yaml` says
  all sessions are invalidated): the DELETE waits for the rotated row but does not see the row inserted
  meanwhile; `OnlyOverlapSurvives` shows this is the only way. Two overlapping refreshes of one token both
  rotate it; the old refresh token works for a 30 s grace period although `openapi.yaml` says it is
  deleted at once. A refresh never looks at `deleted_at`; deleting an account leaves the access token
  valid although `openapi.yaml` says all tokens are revoked (the extractor refuses it by the row).
* Sign-up. A completion cut off after its account row
  was written is refused its own name on a retry; a login issues its tokens before the ban is checked.
* Limits. A nonce makes a second ticket while its key lives when Redis cannot be reached
  (`videos/handlers.rs:2396`), and another after its key lapsed. The daily send cap and both bulk-download limits are exceeded by concurrent calls, and every
  `check_and_increment` likewise although its comment says "in one operation"; a lost EXPIRE leaves a
  key limited for good; init, init, confirm, confirm goes over the upload quota, and a failed confirmation
  charges again when repeated; the expiry of a download counter is renewed by every download; the search
  limit reads a key that nothing increments; a download is refused with 500 when Redis is down where the
  comment says it is allowed.
* Visibility. Two severe reports filed at once can leave a video up that one after the other would
  hide; an automatic quarantine under way overwrites an administrator's removal; a report closed
  meanwhile is stamped `auto_quarantined` again; a page stored late lists a deleted video until it
  expires, and search pages always do, although `openapi.yaml` says the video leaves the feed
  immediately; a bulk deletion leaves the feed alone; `like_count` keeps the likes of deleted accounts.
* Bans. A lifted ban can be cached again by an overlapping check for up to six hours, a new one hidden
  for a minute; a check that cannot read the version takes the verdict of version 0.
* Accounts. The purge removes an account that its owner recovered after the selection; a purge or hard delete that
  stops midway leaves an account without its media; `hard_delete_user` leaves the thumbnails;
  both delete what the rows name (`account_cleanup.rs:58-83`, `admin/handlers.rs:576-606`), so the upload of every
  published video stays in the raw bucket for good (the worker repoints the row, `worker/src/main.rs:368-375`,
  and nobody deletes the object), and so do a copy and a thumbnail of an attempt that failed after storing them,
  and the copy of a video that is published during the removal;
  the purge leaves the cached profile, served for up to a day; a recovering login and `dev_login` change the
  row and do not drop the cached profile; an error between the steps of a deletion leaves its sessions alive.
* Realtime. A client that stops reading keeps its handler inside a send for as long as the connection lasts (`users/handlers.rs:822, 846, 862, 878,
  897`): neither the pong timeout nor the token's expiry nor the end of its channel is noticed, the socket
  stays open, and its hub slot goes only when its queue overflows. A client whose snapshot query failed gets events without a snapshot; a websocket whose
  upgrade fails keeps its hub slot.

## 6. Not modelled, and what is left

Not modelled: request parsing and validation (user names and their suggestions included), SQL text of
read-only listings and search, ffmpeg command lines, S3 signing, hashing and JWT encoding,
the signature and replay check of administrators' requests,
metrics, audit log lines, configuration (start-up only), the maintenance mode
(a constant after start-up), migrations (their constraints appear as guards).

What is left:

1. Compositions: `SignUp` sessions feeding `SessionTokens`.
2. Proofs: every safety invariant and action property of the passing runs is proved; what remains
   is liveness, which the prover does not reach.
