------------------------------ MODULE Accounts ------------------------------
(***************************************************************************)
(* One account from its first login to its removal: login with recovery,   *)
(* the sessions issued and wiped, the cached profile with the updates of   *)
(* name and onboarding, deletion by the user or an administrator, and the  *)
(* worker that purges accounts deleted 30 days ago (account_cleanup.rs).   *)
(*                                                                         *)
(* Every statement, Redis command and storage call is a step of its own,   *)
(* and a request can fail or be dropped between any two.  `topic' bounds   *)
(* which requests a behaviour has besides logins and deletions: those      *)
(* about sessions, about the profile, or about media.                      *)
(***************************************************************************)
EXTENDS Naturals, FiniteSets

CONSTANTS Call,      \* requests being served
          Video,     \* ids of videos of the account
          Name,      \* usernames that pass validate_username (it allows no capitals)
          NoName,
          Topics,    \* bound: what a behaviour is about
          MaxFaults  \* bound: failed commands and dropped requests

ASSUME AccountAssumption ==
  /\ IsFiniteSet(Call) /\ IsFiniteSet(Video) /\ IsFiniteSet(Name) /\ Name # {}
  /\ NoName \notin Name
  /\ Topics \subseteq {"sessions", "profile", "media"} /\ MaxFaults \in Nat

\* users.deleted_at: not set, set, set 30 days ago; or no row any more.
AccountState == {"active", "deleted", "due", "gone"}

\* A live session by how it came about: "own" by a request that found the
\* account in use (or should have), "overlap" by one that did and was overtaken
\* by a wipe or a deletion, "admin" for a deleted account on purpose.
Origin == {"own", "overlap", "admin"}
Kind == {"refresh", "extension"}

\* In storage: the upload in the raw bucket, and the copy and the thumbnail that
\* the worker puts in the public one.
Media == {"raw", "copy", "thumb"} \X Video
Profile == [name : Name \cup {NoName}, onboarded : BOOLEAN]
NoProfile == [name |-> NoName, onboarded |-> FALSE]

VARIABLES
  topic,      \* what this behaviour is about
  account, name, onboarded,  \* the row of users
  taken,      \* the names of the other accounts
  session,    \* live sessions of each kind
  profile,    \* user:<id>:profile in Redis
  record,     \* the idempotency record of one key: the name it was for
  rows,       \* the rows of videos
  placed,     \* videos whose row names the public copy (s3_bucket, s3_key), or did last
  work,       \* the worker's attempt at each video
  media,      \* what is in storage
  call,       \* the requests
  sweep,      \* the clean-up worker
  faults,     \* failures so far
  halfway,    \* history: a deletion stopped before its wipe was over
  settled,    \* history: the profile was dropped with no stale copy under way
  issued,     \* history: videos that have had a row
  stored,     \* history: videos that have been uploaded
  excused,    \* history: media that storage kept, or that came or were named during a removal
  torn,       \* history: a purge stopped midway, or its account came back
  robbed      \* history: the sweep removed an account in use without that excuse

userVars == <<account, name, onboarded, taken>>
cacheVars == <<profile, record>>
fileVars == <<placed, work>>
mediaVars == <<rows, fileVars, media, issued, stored, excused>>
purgeVars == <<sweep, torn, robbed>>
vars == <<topic, userVars, session, cacheVars, mediaVars, call, purgeVars, faults, halfway, settled>>

Idle == [at |-> "idle", op |-> "none", saw |-> "gone", copy |-> NoProfile, want |-> NoName,
         left |-> {}]

Place == {"idle", "update", "issue", "insert", "rotate", "mark", "wipeRefresh", "wipeExtension",
          "drop", "query", "store", "read", "write", "record", "nameRead", "taken", "nameWrite",
          "storeRecord", "upload", "list", "erase"}

Op == {"none", "login", "admin", "extension", "refresh", "overtaken", "logout", "delete", "me",
       "onboard", "name", "keyed", "adminName", "upload", "hard"}

Request == [at : Place, op : Op, saw : AccountState, copy : Profile, want : Name \cup {NoName},
            left : SUBSET Media]

\* Nobody else has the account's name.
UserType ==
  /\ topic \in Topics
  /\ account \in AccountState /\ name \in Name /\ onboarded \in BOOLEAN /\ taken \subseteq Name
  /\ account # "gone" => name \notin taken

\* What hangs on the row of users goes with it.
StoreType ==
  /\ session \in [Kind -> SUBSET Origin]
  /\ profile \in Profile /\ record \in Name \cup {NoName}
  /\ rows \subseteq issued /\ issued \subseteq Video /\ stored \subseteq issued
  /\ placed \subseteq issued /\ work \in [Video -> {"none", "read", "stored"}]
  /\ media \subseteq Media /\ excused \subseteq Media
  /\ account = "gone" => rows = {} /\ \A k \in Kind : session[k] = {}

ProcessType ==
  /\ call \in [Call -> Request]
  /\ sweep \in [at : {"asleep", "list", "erase"}, left : SUBSET Media]
  /\ faults \in 0 .. MaxFaults
  /\ halfway \in BOOLEAN /\ settled \in BOOLEAN /\ torn \in BOOLEAN /\ robbed \in BOOLEAN

\* Every variable has its type.
TypeOK == UserType /\ StoreType /\ ProcessType

Init ==
  /\ topic \in Topics
  /\ account = "active" /\ name = (CHOOSE n \in Name : TRUE) /\ taken = {}
  /\ onboarded \in BOOLEAN
  /\ session = [k \in Kind |-> {}]
  /\ profile = NoProfile /\ record = NoName
  /\ placed = {} /\ work = [v \in Video |-> "none"]
  /\ rows = {} /\ media = {} /\ issued = {} /\ stored = {} /\ excused = {}
  /\ call = [c \in Call |-> Idle]
  /\ sweep = [at |-> "asleep", left |-> {}]
  /\ faults = 0
  /\ halfway = FALSE /\ settled = TRUE /\ torn = FALSE /\ robbed = FALSE

----------------------------------------------------------------------------
(* Requests *)

Fault == faults < MaxFaults /\ faults' = faults + 1

At(c, place) == call[c].at = place
Goto(c, place) == call' = [call EXCEPT ![c].at = place]
Return(c) == call' = [call EXCEPT ![c] = Idle]
Begin(c, place, op) ==
  At(c, "idle") /\ call' = [call EXCEPT ![c] = [Idle EXCEPT !.at = place, !.op = op]]

\* The request goes on with the account as it was found.
BeginSeeing(c, place, op) ==
  /\ At(c, "idle")
  /\ call' = [call EXCEPT ![c] = [Idle EXCEPT !.at = place, !.op = op, !.saw = account]]

Row == [name |-> name, onboarded |-> onboarded]

\* The AuthUser extractor (ensure_user_onboarding_complete).
Authorized == account = "active" /\ onboarded

\* How the session that c is about to insert came about.
OriginOf(c) ==
  CASE account = "active" -> "own"
    [] account # "active" /\ call[c].op = "admin" -> "admin"
    [] account # "active" /\ call[c].op # "admin" /\ call[c].saw = "active" -> "overlap"
    [] OTHER -> "own"

\* INSERT of a session; without the row of users it fails.
Insert(c, kind) ==
  /\ session' = IF account = "gone" THEN session
                ELSE [session EXCEPT ![kind] = @ \cup {OriginOf(c)}]
  /\ Return(c)

----------------------------------------------------------------------------
(* Sessions *)

\* login_existing_user: the row by google_id.
LoginRead(c) ==
  /\ account # "gone"
  /\ BeginSeeing(c, "update", "login")
  /\ UNCHANGED <<topic, userVars, session, cacheVars, mediaVars, purgeVars, faults, halfway, settled>>

\* UPDATE, with deleted_at only if the row that was read was deleted.
LoginUpdate(c) ==
  LET recovers == call[c].saw # "active" IN
  /\ At(c, "update")
  /\ \/ account = "gone" /\ Return(c) /\ UNCHANGED <<account, halfway, torn, settled>>
     \/ /\ account # "gone"
        /\ account' = IF recovers THEN "active" ELSE account
        /\ halfway' = (halfway /\ ~recovers)
        /\ torn' = (torn \/ (recovers /\ sweep.at # "asleep"))
        /\ settled' = (settled /\ ~recovers)
        /\ call' = [call EXCEPT ![c].at = "issue",
                                ![c].saw = IF recovers THEN "active" ELSE @]
  /\ UNCHANGED <<topic, name, onboarded, taken, session, cacheVars, mediaVars, sweep, robbed, faults>>

\* issue_tokens_for_user.
Issue(c) ==
  /\ At(c, "issue")
  /\ Insert(c, "refresh")
  /\ UNCHANGED <<topic, userVars, cacheVars, mediaVars, purgeVars, faults, halfway, settled>>

\* create_user_session: any row will do.
AdminSession(c) ==
  /\ topic = "sessions" /\ account # "gone"
  /\ Begin(c, "issue", "admin")
  /\ UNCHANGED <<topic, userVars, session, cacheVars, mediaVars, purgeVars, faults, halfway, settled>>

\* Mutant: the extractor does not look at deleted_at.
ExtensionCheckAny(c) ==
  /\ topic = "sessions" /\ onboarded
  /\ BeginSeeing(c, "insert", "extension")
  /\ UNCHANGED <<topic, userVars, session, cacheVars, mediaVars, purgeVars, faults, halfway, settled>>

\* create_extension_session, past the extractor ...
ExtensionCheck(c) ==
  /\ topic = "sessions" /\ Authorized
  /\ BeginSeeing(c, "insert", "extension")
  /\ UNCHANGED <<topic, userVars, session, cacheVars, mediaVars, purgeVars, faults, halfway, settled>>

\* ... or for an administrator, without it.
AdminExtension(c) ==
  /\ topic = "sessions" /\ account # "gone"
  /\ Begin(c, "insert", "admin")
  /\ UNCHANGED <<topic, userVars, session, cacheVars, mediaVars, purgeVars, faults, halfway, settled>>

ExtensionInsert(c) ==
  /\ At(c, "insert")
  /\ Insert(c, "extension")
  /\ UNCHANGED <<topic, userVars, cacheVars, mediaVars, purgeVars, faults, halfway, settled>>

\* refresh_access_token (SessionTokens has it in full): a live token ...
RefreshRead(c) ==
  /\ topic = "sessions" /\ session["refresh"] # {}
  /\ Begin(c, "rotate", "refresh")
  /\ UNCHANGED <<topic, userVars, session, cacheVars, mediaVars, purgeVars, faults, halfway, settled>>

\* ... is replaced by its successor, which a wipe in between does not see.
\* deleted_at is not looked at.
RefreshRotate(c) ==
  /\ At(c, "rotate")
  /\ session' = IF call[c].op = "overtaken" /\ account # "gone"
                  THEN [session EXCEPT !["refresh"] = @ \cup {"overlap"}] ELSE session
  /\ Return(c)
  /\ UNCHANGED <<topic, userVars, cacheVars, mediaVars, purgeVars, faults, halfway, settled>>

\* as_user_logout_all, logout, and upsert_user_ban after the ban is stored.
LogoutAll(c) ==
  /\ topic = "sessions"
  /\ Begin(c, "wipeRefresh", "logout")
  /\ UNCHANGED <<topic, userVars, session, cacheVars, mediaVars, purgeVars, faults, halfway, settled>>

\* logout_all.
WipeRefresh(c) ==
  /\ At(c, "wipeRefresh")
  /\ session' = [session EXCEPT !["refresh"] = {}]
  /\ call' = [d \in Call |->
                IF d = c THEN [call[d] EXCEPT !.at = "wipeExtension"]
                ELSE IF At(d, "rotate") THEN [call[d] EXCEPT !.op = "overtaken"] ELSE call[d]]
  /\ UNCHANGED <<topic, userVars, cacheVars, mediaVars, purgeVars, faults, halfway, settled>>

\* revoke_extension_sessions.
WipeExtension(c) ==
  /\ At(c, "wipeExtension")
  /\ session' = [session EXCEPT !["extension"] = {}]
  /\ IF call[c].op = "delete" THEN Goto(c, "drop") ELSE Return(c)
  /\ UNCHANGED <<topic, userVars, cacheVars, mediaVars, purgeVars, faults, halfway, settled>>

----------------------------------------------------------------------------
(* Deletion *)

\* delete_account, past the extractor, or as_user_delete_account, of any row.
DeleteBegin(c) ==
  /\ account # "gone"
  /\ Begin(c, "mark", "delete")
  /\ UNCHANGED <<topic, userVars, session, cacheVars, mediaVars, purgeVars, faults, halfway, settled>>

\* UPDATE of deleted_at; the sessions follow.
DeleteMark(c) ==
  /\ At(c, "mark")
  /\ \/ account = "gone" /\ Return(c) /\ UNCHANGED <<account, settled>>
     \/ /\ account # "gone"
        /\ account' = "deleted"
        /\ settled' = FALSE
        /\ Goto(c, "wipeRefresh")
  /\ UNCHANGED <<topic, name, onboarded, taken, session, cacheVars, mediaVars, purgeVars, faults,
                 halfway>>

\* No get_me is about to store a profile that is not the row's.
Undisturbed ==
  \A d \in Call : At(d, "store") => call[d].copy = Row /\ account = "active"

\* DEL of the cached profile, whose errors are ignored.
DropProfile(c) ==
  /\ At(c, "drop")
  /\ \/ profile' = NoProfile /\ settled' = (settled \/ Undisturbed) /\ UNCHANGED faults
     \/ Fault /\ UNCHANGED <<profile, settled>>
  /\ IF call[c].op = "keyed" THEN Goto(c, "storeRecord") ELSE Return(c)
  /\ UNCHANGED <<topic, userVars, session, record, mediaVars, purgeVars, halfway>>

\* 30 days pass.
DeletionAges ==
  /\ account = "deleted"
  /\ account' = "due"
  /\ UNCHANGED <<topic, name, onboarded, taken, session, cacheVars, mediaVars, call, purgeVars,
                 faults, halfway, settled>>

----------------------------------------------------------------------------
(* Profile, onboarding and name *)

\* get_me: GET, of which an error is a miss.
GetMe(c) ==
  /\ topic = "profile"
  /\ profile = NoProfile \/ faults < MaxFaults
  /\ faults' = IF profile = NoProfile THEN faults ELSE faults + 1
  /\ Begin(c, "query", "me")
  /\ UNCHANGED <<topic, userVars, session, cacheVars, mediaVars, purgeVars, halfway, settled>>

\* Mutant: deleted_at is not looked at.
MeQueryAny(c) ==
  /\ At(c, "query")
  /\ IF account # "gone"
       THEN call' = [call EXCEPT ![c].at = "store", ![c].copy = Row]
       ELSE Return(c)
  /\ UNCHANGED <<topic, userVars, session, cacheVars, mediaVars, purgeVars, faults, halfway, settled>>

\* The row, unless it is gone or deleted.
MeQuery(c) ==
  /\ At(c, "query")
  /\ IF account = "active"
       THEN call' = [call EXCEPT ![c].at = "store", ![c].copy = Row]
       ELSE Return(c)
  /\ UNCHANGED <<topic, userVars, session, cacheVars, mediaVars, purgeVars, faults, halfway, settled>>

\* SETEX, whose error is ignored.
MeStore(c) ==
  /\ At(c, "store")
  /\ \/ profile' = call[c].copy /\ UNCHANGED faults
     \/ Fault /\ UNCHANGED profile
  /\ Return(c)
  /\ UNCHANGED <<topic, userVars, session, record, mediaVars, purgeVars, halfway, settled>>

\* The profile lapses after 24 h, the record after 10 min.
ProfileLapses ==
  /\ profile # NoProfile
  /\ profile' = NoProfile
  /\ UNCHANGED <<topic, userVars, session, record, mediaVars, call, purgeVars, faults, halfway, settled>>

RecordLapses ==
  /\ record # NoName
  /\ record' = NoName
  /\ UNCHANGED <<topic, userVars, session, profile, mediaVars, call, purgeVars, faults, halfway, settled>>

\* The row, deleted or not: whether its onboarding is complete.
Onboards(c, op) ==
  /\ account # "gone" /\ At(c, "idle")
  /\ call' = [call EXCEPT ![c] = [Idle EXCEPT !.at = "write", !.op = op, !.copy.onboarded = onboarded]]

\* complete_onboarding and as_user_onboarding_complete.
OnboardRead(c) ==
  /\ topic = "profile"
  /\ Onboards(c, "onboard")
  /\ UNCHANGED <<topic, userVars, session, cacheVars, mediaVars, purgeVars, faults, halfway, settled>>

\* dev_login finds the account by its address and completes its onboarding; it
\* leaves the cached profile alone.
DevLogin(c) ==
  /\ topic = "sessions"
  /\ Onboards(c, "admin")
  /\ UNCHANGED <<topic, userVars, session, cacheVars, mediaVars, purgeVars, faults, halfway, settled>>

AfterOnboarding(c) == IF call[c].op = "admin" THEN "issue" ELSE "drop"

\* UPDATE, if the row that was read was not complete.
OnboardWrite(c) ==
  /\ At(c, "write")
  /\ \/ call[c].copy.onboarded /\ Goto(c, AfterOnboarding(c)) /\ UNCHANGED <<onboarded, settled>>
     \/ /\ ~call[c].copy.onboarded /\ account = "gone"
        /\ Return(c)
        /\ UNCHANGED <<onboarded, settled>>
     \/ /\ ~call[c].copy.onboarded /\ account # "gone"
        /\ onboarded' = TRUE
        /\ settled' = (settled /\ onboarded)
        /\ Goto(c, AfterOnboarding(c))
  /\ UNCHANGED <<topic, account, name, taken, session, cacheVars, mediaVars, purgeVars, faults, halfway>>

\* update_username, past the extractor, with or without a key.
NameBegin(c, n) ==
  /\ topic = "profile" /\ At(c, "idle") /\ Authorized
  /\ \E op \in {"name", "keyed"} :
       call' = [call EXCEPT ![c] = [Idle EXCEPT !.at = IF op = "keyed" THEN "record" ELSE "nameRead",
                                                !.op = op, !.want = n]]
  /\ UNCHANGED <<topic, userVars, session, cacheVars, mediaVars, purgeVars, faults, halfway, settled>>

\* as_user_update_username, of any row.
AdminName(c, n) ==
  /\ topic = "profile" /\ At(c, "idle") /\ account # "gone"
  /\ call' = [call EXCEPT ![c] = [Idle EXCEPT !.at = "taken", !.op = "adminName", !.want = n]]
  /\ UNCHANGED <<topic, userVars, session, cacheVars, mediaVars, purgeVars, faults, halfway, settled>>

\* GET of the record: it answers the request, with a conflict if it was for
\* another name.
NameRecord(c) ==
  /\ At(c, "record")
  /\ IF record = NoName THEN Goto(c, "nameRead") ELSE Return(c)
  /\ UNCHANGED <<topic, userVars, session, cacheVars, mediaVars, purgeVars, faults, halfway, settled>>

\* The row: an unchanged name is answered at once.
NameRead(c) ==
  /\ At(c, "nameRead")
  /\ IF account = "gone" \/ (name = call[c].want /\ call[c].op = "name") THEN Return(c)
     ELSE Goto(c, IF name = call[c].want THEN "storeRecord" ELSE "taken")
  /\ UNCHANGED <<topic, userVars, session, cacheVars, mediaVars, purgeVars, faults, halfway, settled>>

\* username_exists_case_insensitive, the caller aside, and the unique index.
UsernameExists(n) == n \in taken

NameTaken(c) ==
  /\ At(c, "taken")
  /\ IF UsernameExists(call[c].want) THEN Return(c) ELSE Goto(c, "nameWrite")
  /\ UNCHANGED <<topic, userVars, session, cacheVars, mediaVars, purgeVars, faults, halfway, settled>>

\* Mutant: the name was checked a moment ago and nothing else guards it.
NameWriteAny(c) ==
  /\ At(c, "nameWrite")
  /\ name' = call[c].want
  /\ settled' = (settled /\ name = call[c].want)
  /\ Goto(c, "drop")
  /\ UNCHANGED <<topic, account, onboarded, taken, session, cacheVars, mediaVars, purgeVars, faults,
                 halfway>>

\* UPDATE under the unique index.
NameWrite(c) ==
  /\ At(c, "nameWrite")
  /\ \/ /\ account = "gone" \/ UsernameExists(call[c].want)
        /\ Return(c)
        /\ UNCHANGED <<name, settled>>
     \/ /\ account # "gone" /\ ~UsernameExists(call[c].want)
        /\ name' = call[c].want
        /\ settled' = (settled /\ name = call[c].want)
        /\ Goto(c, "drop")
  /\ UNCHANGED <<topic, account, onboarded, taken, session, cacheVars, mediaVars, purgeVars, faults,
                 halfway>>

\* SETEX of the record, whose error is ignored.
StoreRecord(c) ==
  /\ At(c, "storeRecord")
  /\ \/ record' = call[c].want /\ UNCHANGED faults
     \/ Fault /\ UNCHANGED record
  /\ Return(c)
  /\ UNCHANGED <<topic, userVars, session, profile, mediaVars, purgeVars, halfway, settled>>

\* Another account takes a free name.
OthersTake(n) ==
  /\ topic = "profile" /\ n # name /\ account # "gone"
  /\ taken' = taken \cup {n}
  /\ UNCHANGED <<topic, account, name, onboarded, session, cacheVars, mediaVars, call, purgeVars,
                 faults, halfway, settled>>

----------------------------------------------------------------------------
(* Media, and the removal of an account *)

Erasing(c) == call[c].at = "erase"

\* Somebody has listed the account's media and is removing them, or has.
Purging == account = "gone" \/ sweep.at = "erase" \/ \E c \in Call : Erasing(c)

\* init_upload, past the extractor ...
UploadCheck(c) ==
  /\ topic = "media" /\ Authorized
  /\ Begin(c, "upload", "upload")
  /\ UNCHANGED <<topic, userVars, session, cacheVars, mediaVars, purgeVars, faults, halfway, settled>>

\* ... and the row it makes.
UploadInsert(c) ==
  /\ At(c, "upload")
  /\ IF account = "gone" THEN UNCHANGED <<rows, issued>>
     ELSE \E v \in Video \ issued : rows' = rows \cup {v} /\ issued' = issued \cup {v}
  /\ Return(c)
  /\ UNCHANGED <<topic, userVars, session, cacheVars, fileVars, media, stored, excused, purgeVars, faults,
                 halfway, settled>>

\* The client puts the object at the URL it was given, whatever has happened
\* to the account.
Put(v) ==
  /\ v \in issued \ stored
  /\ media' = media \cup {<<"raw", v>>}
  /\ excused' = IF Purging THEN excused \cup {<<"raw", v>>} ELSE excused
  /\ stored' = stored \cup {v}
  /\ UNCHANGED <<topic, userVars, session, cacheVars, rows, fileVars, issued, call, purgeVars, faults, halfway,
                 settled>>

\* process_video (VideoPipeline has it in full): the row and the upload it names ...
WorkRead(v) ==
  /\ work[v] = "none" /\ v \in rows \ placed /\ <<"raw", v>> \in media
  /\ work' = [work EXCEPT ![v] = "read"]
  /\ UNCHANGED <<topic, userVars, session, cacheVars, rows, placed, media, issued, stored, excused, call,
                 purgeVars, faults, halfway, settled>>

\* ... a public copy under a key of its own ...
StoreCopy(v) ==
  /\ work[v] = "read"
  /\ work' = [work EXCEPT ![v] = "stored"]
  /\ media' = media \cup {<<"copy", v>>}
  /\ UNCHANGED <<topic, userVars, session, cacheVars, rows, placed, issued, stored, excused, call,
                 purgeVars, faults, halfway, settled>>

\* ... a thumbnail beside it, whose failure is only logged ...
StoreThumb(v) ==
  /\ work[v] = "stored"
  /\ media' = media \cup {<<"thumb", v>>}
  /\ UNCHANGED <<topic, userVars, session, cacheVars, rows, fileVars, issued, stored, excused, call,
                 purgeVars, faults, halfway, settled>>

\* ... and the row now names the copy, if it is still there.  Nobody deletes the
\* upload.
Publish(v) ==
  /\ work[v] = "stored"
  /\ work' = [work EXCEPT ![v] = "none"]
  /\ placed' = placed \cup ({v} \cap rows)
  /\ excused' = IF Purging THEN excused \cup ({"copy", "thumb"} \X {v}) ELSE excused
  /\ UNCHANGED <<topic, userVars, session, cacheVars, rows, media, issued, stored, call, purgeVars, faults,
                 halfway, settled>>

\* The attempt fails or the worker dies: what it stored stays.
WorkFails(v) ==
  /\ work[v] # "none"
  /\ work' = [work EXCEPT ![v] = "none"]
  /\ UNCHANGED <<topic, userVars, session, cacheVars, rows, placed, media, issued, stored, excused, call,
                 purgeVars, faults, halfway, settled>>

\* What the row of a video names: its object ...
Object(v) == IF v \in placed THEN <<"copy", v>> ELSE <<"raw", v>>

\* ... and what the sweep deletes for it: the object, and the thumbnail's key in
\* the same bucket, where there is one only for a public copy.
Named(V) == {Object(v) : v \in V} \cup {<<"thumb", v>> : v \in V \cap placed}

\* DELETE of the row of users, with the cascades.
RemoveUser ==
  /\ account' = "gone" /\ onboarded' = FALSE
  /\ settled' = FALSE /\ halfway' = FALSE /\ torn' = FALSE
  /\ rows' = {}
  /\ session' = [k \in Kind |-> {}]

\* process_expired_accounts: the accounts deleted 30 days ago.
SweepSelect ==
  /\ sweep.at = "asleep" /\ account = "due"
  /\ sweep' = [at |-> "list", left |-> {}]
  /\ UNCHANGED <<topic, userVars, session, cacheVars, mediaVars, call, torn, robbed, faults, halfway,
                 settled>>

\* Mutant: only the published videos are listed.
SweepListPublished ==
  /\ sweep.at = "list"
  /\ sweep' = [at |-> "erase", left |-> Named(rows \cap placed)]
  /\ UNCHANGED <<topic, userVars, session, cacheVars, mediaVars, call, torn, robbed, faults, halfway,
                 settled>>

\* The account's videos, each with the object its row names and a thumbnail.
SweepList ==
  /\ sweep.at = "list"
  /\ sweep' = [at |-> "erase", left |-> Named(rows)]
  /\ UNCHANGED <<topic, userVars, session, cacheVars, mediaVars, call, torn, robbed, faults, halfway,
                 settled>>

\* An error is logged and the next one is deleted.
SweepErase ==
  /\ sweep.at = "erase"
  /\ \E m \in sweep.left :
       /\ sweep' = [sweep EXCEPT !.left = @ \ {m}]
       /\ \/ media' = media \ {m} /\ UNCHANGED <<excused, faults>>
          \/ Fault /\ excused' = excused \cup {m} /\ UNCHANGED media
  /\ UNCHANGED <<topic, userVars, session, cacheVars, rows, fileVars, issued, stored, call, torn, robbed, halfway,
                 settled>>

\* The row goes, whatever deleted_at says by now; the caches are left alone.
SweepRow ==
  /\ sweep.at = "erase" /\ sweep.left = {}
  /\ robbed' = (robbed \/ (account = "active" /\ ~torn))
  /\ RemoveUser
  /\ sweep' = [at |-> "asleep", left |-> {}]
  /\ UNCHANGED <<topic, name, taken, cacheVars, fileVars, media, issued, stored, excused, call,
                 faults>>

\* A database error ends the round, and the process can stop anywhere; the next
\* round is an hour later.
SweepCut ==
  /\ sweep.at # "asleep"
  /\ Fault
  /\ sweep' = [at |-> "asleep", left |-> {}]
  /\ torn' = (torn \/ (sweep.at # "list" /\ account # "gone"))
  /\ UNCHANGED <<topic, userVars, session, cacheVars, mediaVars, call, robbed, halfway, settled>>

\* hard_delete_user: the row of any account ...
HardDeleteRead(c) ==
  /\ topic = "media" /\ account # "gone"
  /\ Begin(c, "list", "hard")
  /\ UNCHANGED <<topic, userVars, session, cacheVars, mediaVars, purgeVars, faults, halfway, settled>>

\* ... its videos ...
HardDeleteList(c) ==
  /\ At(c, "list")
  /\ call' = [call EXCEPT ![c].at = "erase", ![c].left = {Object(v) : v \in rows}]
  /\ UNCHANGED <<topic, userVars, session, cacheVars, mediaVars, purgeVars, faults, halfway, settled>>

\* ... their objects (an error ends the request: CallCut) ...
HardDeleteErase(c) ==
  /\ At(c, "erase")
  /\ \E m \in call[c].left :
       /\ media' = media \ {m}
       /\ call' = [call EXCEPT ![c].left = @ \ {m}]
  /\ UNCHANGED <<topic, userVars, session, cacheVars, rows, fileVars, issued, stored, excused, purgeVars, faults,
                 halfway, settled>>

\* ... and the row.  The thumbnails stay.  The caches are dropped last.
HardDeleteRow(c) ==
  /\ At(c, "erase") /\ call[c].left = {}
  /\ IF account = "gone" THEN Return(c) ELSE Goto(c, "drop")
  /\ RemoveUser
  /\ excused' = excused \cup {m \in media : m[1] = "thumb"}
  /\ UNCHANGED <<topic, name, taken, cacheVars, fileVars, media, issued, stored, sweep, robbed,
                 faults>>

----------------------------------------------------------------------------
\* A step fails, or the request is dropped: what was written stays.
CallCut(c) ==
  /\ ~At(c, "idle")
  /\ Fault
  /\ halfway' = (halfway \/ (/\ call[c].op = "delete"
                              /\ call[c].at \in {"wipeRefresh", "wipeExtension"}
                              /\ account \in {"deleted", "due"}))
  /\ torn' = (torn \/ (Erasing(c) /\ account # "gone"))
  /\ Return(c)
  /\ UNCHANGED <<topic, userVars, session, cacheVars, mediaVars, sweep, robbed, settled>>

Next ==
  \/ \E c \in Call :
       \/ LoginRead(c) \/ LoginUpdate(c) \/ Issue(c) \/ AdminSession(c) \/ DevLogin(c)
       \/ ExtensionCheck(c) \/ AdminExtension(c) \/ ExtensionInsert(c)
       \/ RefreshRead(c) \/ RefreshRotate(c) \/ LogoutAll(c) \/ WipeRefresh(c) \/ WipeExtension(c)
       \/ DeleteBegin(c) \/ DeleteMark(c) \/ DropProfile(c)
       \/ GetMe(c) \/ MeQuery(c) \/ MeStore(c) \/ OnboardRead(c) \/ OnboardWrite(c)
       \/ \E n \in Name : NameBegin(c, n) \/ AdminName(c, n)
       \/ NameRecord(c) \/ NameRead(c) \/ NameTaken(c) \/ NameWrite(c) \/ StoreRecord(c)
       \/ UploadCheck(c) \/ UploadInsert(c)
       \/ HardDeleteRead(c) \/ HardDeleteList(c) \/ HardDeleteErase(c) \/ HardDeleteRow(c)
       \/ CallCut(c)
  \/ DeletionAges \/ ProfileLapses \/ RecordLapses
  \/ \E n \in Name : OthersTake(n)
  \/ \E v \in Video : \/ Put(v) \/ WorkRead(v) \/ StoreCopy(v) \/ StoreThumb(v) \/ Publish(v)
                      \/ WorkFails(v)
  \/ SweepSelect \/ SweepList \/ SweepErase \/ SweepRow \/ SweepCut

Spec == Init /\ [][Next]_vars
----------------------------------------------------------------------------
(* Properties. *)

\* A deleted account is signed out once its deletion is over: what sessions it
\* has came from requests that overlapped the deletion or from an
\* administrator, unless the deletion stopped before its wipe was over.
DeletedIsSignedOut ==
  /\ account \in {"deleted", "due"}
  /\ ~halfway
  /\ ~\E c \in Call : call[c].op = "delete" /\ call[c].at \in {"wipeRefresh", "wipeExtension"}
  => \A k \in Kind : "own" \notin session[k]

\* After an update or a deletion has dropped the cached profile, with no get_me
\* under way that read the row before, what is served is the row, and nothing
\* for an account that is deleted.
ProfileFollows ==
  settled /\ profile # NoProfile => profile = Row /\ account = "active"

\* Of what its rows named, a removed account leaves nothing in storage except what
\* storage failed to delete, what arrived or was named by a row while it was being
\* removed, and the thumbnails hard_delete_user forgets.  (What no row names stays:
\* the upload of every published video, the copies of attempts that failed.)  An
\* account in use has every object its rows name, and the sweep removes no account
\* in use, unless a removal stopped midway or the owner came back during one.
PurgeIsRight ==
  /\ account = "gone" /\ sweep.at = "asleep" /\ ~(\E c \in Call : Erasing(c)) =>
       media \cap Named(issued) \subseteq excused
  /\ account = "active" /\ ~torn /\ ~(\E c \in Call : Erasing(c)) =>
       \A v \in rows \cap stored : Object(v) \in media
  /\ ~robbed
=============================================================================
