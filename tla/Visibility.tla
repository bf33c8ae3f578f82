----------------------------- MODULE Visibility -----------------------------
(***************************************************************************)
(* One published video: the abuse reports filed against it, the moderation *)
(* state that hides or shows it, its deletion, its metadata, its likes and *)
(* the cached pages that list it (abuse_report_service.rs, the report,     *)
(* like, delete, update, feed and search handlers of videos/handlers.rs,   *)
(* get_my_videos, the moderation routes of admin/handlers.rs,              *)
(* feed_cache.rs).                                                         *)
(*                                                                         *)
(* PostgreSQL runs at READ COMMITTED: every statement sees what is         *)
(* committed when it starts, and a transaction's own writes.  A report     *)
(* written inside a transaction is "pending" until its commit; an UPDATE   *)
(* waits while another transaction holds the row.  The UPDATE of the video *)
(* row and the COMMIT that follows it are one step, because no statement   *)
(* between them reads anything.                                            *)
(***************************************************************************)
EXTENDS Naturals, FiniteSets

CONSTANTS
  Call,        \* requests being served: reports, moderation, resolution, deletion
  Reader,      \* requests that fill a cached page
  Reporter,    \* users who file reports
  Liker,       \* users who like and unlike
  MaxReports,  \* bound: rows abuse_reports ever holds
  Threshold,   \* auto_quarantine_severe_distinct_reporters.max(1)
  Resolution,  \* the statuses a report is closed with
  Meta,        \* title, description and flags a video can have
  NoUser, NoReport

ASSUME VisibilityAssumption ==
  /\ IsFiniteSet(Call) /\ IsFiniteSet(Reporter)
  /\ MaxReports \in Nat
  /\ Threshold \in Nat \ {0}
  /\ Resolution # {} /\ Resolution \subseteq {"resolved", "rejected"}
  /\ NoUser \notin Reporter \cup Liker
  /\ IsFiniteSet(Liker)
  /\ NoReport \notin Nat
  /\ Meta # {}

Report == 1 .. MaxReports
Surface == {"feed", "search", "mine"}
Grade == {"mild", "severe", "immediate"}
Moderation == {"VISIBLE", "QUARANTINED", "REMOVED"}
Action == {"quarantine", "remove", "restore"}

VARIABLES
  mod,      \* videos.moderation_state
  mark,     \* videos.moderation_reason_code and moderation_source_report_id
  deleted,  \* videos.deleted_at is set
  rep,      \* the rows of abuse_reports
  like,     \* the rows of likes, and what became of the users who made them
  likes,    \* videos.like_count
  pc,       \* the next statement of each call
  loc,      \* the local variables of each call
  meta,     \* videos.title, description, is_anonymous, is_nsfw
  cache,    \* per surface: the metadata with which the cached page lists the video
  reader,   \* per reader: what its query found and where it will be cached
  past,     \* history: what has happened to the video
  overlap   \* history: what was decided while a call was in flight

dbVars == <<mod, mark, deleted, rep, like, likes>>
likeVars == <<like, likes>>
callVars == <<pc, loc>>
pageVars == <<meta, cache, reader>>
historyVars == <<past, overlap>>
vars == <<mod, mark, deleted, rep, like, likes, pc, loc, meta, cache, reader, past, overlap>>

----------------------------------------------------------------------------
(* Rows and transactions *)

NoRow == [life |-> "free", by |-> NoUser, severe |-> FALSE,
          status |-> "open", recent |-> TRUE]
NoLocal == [user |-> NoUser, grade |-> "mild", report |-> NoReport,
            act |-> "quarantine", status |-> "resolved", meta |-> {}]
Invalidation == {"invalidate", "invalidateOwn", "invalidateMine", "invalidateLike"}
Unmarked == [reason |-> "none", source |-> NoReport]

\* What the public queries filter on: not deleted and VISIBLE.
Public == ~deleted /\ mod = "VISIBLE"

\* What each page lists; the owner's own list has the moderated videos too.
Lists(s) == IF s = "mine" THEN ~deleted ELSE Public

\* The reporter's reports with closed_at NULL.
OpenBy(u) == {i \in Report : rep[i].life = "open" /\ rep[i].by = u}
Stored(i) == rep[i].life \in {"open", "closed"}

\* The transaction of c has written a report and not committed.
InTransaction(c) == pc[c] \in {"moderate", "quarantine", "stamp", "commit"}

Submitting(c) == pc[c] \in {"find", "insert", "update"} \/ InTransaction(c)

\* Another transaction holds the row of report i.
Locked(i) == \E c \in Call : InTransaction(c) /\ loc[c].report = i

\* COUNT(DISTINCT reporter_user_id) of the open reports of the window, as the
\* transaction that has just written its own report sees them.
ReporterCount(own) ==
  Cardinality({rep[i].by : i \in {j \in Report : rep[j].life = "open" /\ rep[j].recent}}
                \cup own)

\* Mutant: as if the threshold had to be exceeded.
AutoRuleLate(grade, own) ==
  \/ grade = "immediate"
  \/ grade = "severe" /\ ReporterCount(own) > Threshold

\* The rule that quarantines without an administrator.
AutoRule(grade, own) ==
  \/ grade = "immediate"
  \/ grade = "severe" /\ ReporterCount(own) >= Threshold

\* The call goes on to step p without its local variables.
Leave(c, p) ==
  /\ pc' = [pc EXCEPT ![c] = p]
  /\ loc' = [loc EXCEPT ![c] = NoLocal]

\* A rolled back transaction leaves no row of its own behind.
Rollback(c) ==
  rep' = [i \in Report |->
            IF rep[i].life = "pending" /\ InTransaction(c) /\ loc[c].report = i
            THEN NoRow ELSE rep[i]]

----------------------------------------------------------------------------
(* POST /videos/{id}/report: submit_or_update_report *)

\* Mutant: as if a removed video could still be reported.
SubmitBeginRemoved(c, u, g) ==
  /\ pc[c] = "idle" /\ ~deleted
  /\ pc' = [pc EXCEPT ![c] = "find"]
  /\ loc' = [loc EXCEPT ![c] = [NoLocal EXCEPT !.user = u, !.grade = g]]
  /\ UNCHANGED <<dbVars, pageVars, historyVars>>

\* The transaction reads the video: deleted or removed, it answers 404.
SubmitBegin(c, u, g) ==
  /\ pc[c] = "idle"
  /\ ~deleted /\ mod # "REMOVED"
  /\ pc' = [pc EXCEPT ![c] = "find"]
  /\ loc' = [loc EXCEPT ![c] = [NoLocal EXCEPT !.user = u, !.grade = g]]
  /\ UNCHANGED <<dbVars, pageVars, historyVars>>

\* The reporter's open report, if any.
SubmitFind(c) ==
  /\ pc[c] = "find"
  /\ \/ /\ OpenBy(loc[c].user) = {}
        /\ pc' = [pc EXCEPT ![c] = "insert"]
        /\ UNCHANGED loc
     \/ \E i \in OpenBy(loc[c].user) :
          /\ pc' = [pc EXCEPT ![c] = "update"]
          /\ loc' = [loc EXCEPT ![c].report = i]
  /\ UNCHANGED <<dbVars, pageVars, historyVars>>

\* UPDATE of the report found; a purged row is an error.  Then the rule.
SubmitUpdate(c) ==
  LET i == loc[c].report IN
  /\ pc[c] = "update" /\ Stored(i) /\ ~Locked(i)
  /\ pc' = [pc EXCEPT ![c] = IF AutoRule(loc[c].grade, {}) THEN "moderate" ELSE "commit"]
  /\ UNCHANGED <<dbVars, loc, pageVars, historyVars>>

\* INSERT of a new report.  The unique index on the open reports of a
\* reporter makes it wait for an uncommitted one and fail on a committed one.
SubmitInsert(c, i) ==
  LET u == loc[c].user IN
  /\ pc[c] = "insert" /\ OpenBy(u) = {}
  /\ \A j \in Report : rep[j].life = "pending" => rep[j].by # u
  /\ rep[i].life = "free" /\ \A j \in Report : rep[j].life = "free" => i <= j
  /\ rep' = [rep EXCEPT ![i] = [life |-> "pending", by |-> u,
                                severe |-> loc[c].grade # "mild",
                                status |-> "open", recent |-> TRUE]]
  /\ loc' = [loc EXCEPT ![c].report = i]
  /\ pc' = [pc EXCEPT ![c] = IF AutoRule(loc[c].grade, {u}) THEN "moderate" ELSE "commit"]
  /\ UNCHANGED <<mod, mark, deleted, likeVars, pageVars, historyVars>>

\* apply_video_moderation_action_txn reads the video again: 404 and rollback
\* if it was deleted meanwhile, no write if nothing would change.
AutoRead(c) ==
  LET next == [reason |-> "auto", source |-> loc[c].report] IN
  /\ pc[c] = "moderate" /\ ~deleted
  /\ pc' = [pc EXCEPT ![c] = IF mod # "QUARANTINED" \/ mark # next THEN "quarantine"
                                                                  ELSE "stamp"]
  /\ UNCHANGED <<dbVars, loc, pageVars, historyVars>>

\* Another transaction has counted without the report c is about to commit.
Racing(c) == \E d \in Call \ {c} : InTransaction(d)

\* The report as the transaction of c leaves it.
Written(c, i) ==
  [rep[i] EXCEPT !.life = IF @ = "pending" THEN "open" ELSE @,
                 !.severe = loc[c].grade # "mild",
                 !.status = IF pc[c] = "commit" THEN @ ELSE "auto_quarantined"]

\* COMMIT of the report alone, or of a report whose video already is
\* quarantined on its account.
SubmitCommit(c) ==
  LET i == loc[c].report IN
  /\ pc[c] \in {"commit", "stamp"}
  /\ rep' = [rep EXCEPT ![i] = Written(c, i)]
  /\ Leave(c, "idle")
  /\ past' = IF Racing(c) /\ past = "none" THEN "raced" ELSE past
  /\ overlap' = [overlap EXCEPT ![c] = {}]
  /\ UNCHANGED <<mod, mark, deleted, likeVars, pageVars>>

\* UPDATE of the video, of the report, and COMMIT.
AutoQuarantine(c) ==
  LET i == loc[c].report IN
  /\ pc[c] = "quarantine"
  /\ mod' = "QUARANTINED"
  /\ mark' = [reason |-> "auto", source |-> i]
  /\ rep' = [rep EXCEPT ![i] = Written(c, i)]
  /\ Leave(c, "invalidate")
  /\ overlap' = [overlap EXCEPT ![c] = {}]
  /\ UNCHANGED <<deleted, likeVars, pageVars, past>>

----------------------------------------------------------------------------
(* The moderation routes of the administrators *)

\* Mutant: as if a restored video had a state of its own.
TargetRestored(a) == CASE a = "quarantine" -> "QUARANTINED"
                       [] a = "remove"     -> "REMOVED"
                       [] a = "restore"    -> "RESTORED"

Target(a) == CASE a = "quarantine" -> "QUARANTINED"
               [] a = "remove"     -> "REMOVED"
               [] a = "restore"    -> "VISIBLE"

\* The reason an administrator gives; a restored video keeps none.
NextMark(a) == [reason |-> IF a = "restore" THEN "none" ELSE "admin", source |-> NoReport]

\* The row is read without a lock; a repeated action writes nothing.
ModerateRead(c, a) ==
  /\ pc[c] = "idle" /\ ~deleted
  /\ mod # Target(a) \/ mark # NextMark(a)
  /\ pc' = [pc EXCEPT ![c] = "admin"]
  /\ loc' = [loc EXCEPT ![c] = [NoLocal EXCEPT !.act = a]]
  /\ UNCHANGED <<dbVars, pageVars, historyVars>>

\* UPDATE and COMMIT.
ModerateWrite(c) ==
  LET a == loc[c].act IN
  /\ pc[c] = "admin"
  /\ mod' = Target(a)
  /\ mark' = NextMark(a)
  /\ Leave(c, "invalidate")
  /\ past' = "moderated"
  /\ overlap' = [d \in Call |-> IF a = "remove" /\ Submitting(d)
                                THEN overlap[d] \cup {"removed"} ELSE overlap[d]]
  /\ UNCHANGED <<deleted, rep, likeVars, pageVars>>

\* resolve_abuse_report reads the report: a closed one is returned as it is.
ResolveRead(c, i, s) ==
  /\ pc[c] = "idle" /\ rep[i].life = "open"
  /\ pc' = [pc EXCEPT ![c] = "resolve"]
  /\ loc' = [loc EXCEPT ![c] = [NoLocal EXCEPT !.report = i, !.status = s]]
  /\ UNCHANGED <<dbVars, pageVars, historyVars>>

ResolveWrite(c) ==
  LET i == loc[c].report IN
  /\ pc[c] = "resolve" /\ Stored(i) /\ ~Locked(i)
  /\ rep' = [rep EXCEPT ![i].life = "closed", ![i].status = loc[c].status]
  /\ Leave(c, "idle")
  /\ overlap' = [d \in Call |->
                   IF d = c THEN {}
                   ELSE IF pc[d] \in {"update", "resolve"} /\ loc[d].report = i
                        THEN overlap[d] \cup {"closed"} ELSE overlap[d]]
  /\ UNCHANGED <<mod, mark, deleted, likeVars, pageVars, past>>

----------------------------------------------------------------------------
(* PUT and DELETE /videos/{id}/like *)

\* get_published_video_or_404, outside the transaction and whether or not the
\* video is deleted.
LikeBegin(c, u, p) ==
  /\ pc[c] = "idle" /\ mod = "VISIBLE" /\ like[u] \in {"none", "liked"}
  /\ pc' = [pc EXCEPT ![c] = p]
  /\ loc' = [loc EXCEPT ![c] = [NoLocal EXCEPT !.user = u]]
  /\ UNCHANGED <<dbVars, pageVars, historyVars>>

\* Mutant: as if the count went up whether or not a row was inserted.
SetLikeAgain(c) ==
  LET u == loc[c].user IN
  /\ pc[c] = "like" /\ like[u] \in {"none", "liked"}
  /\ like' = [like EXCEPT ![u] = "liked"]
  /\ likes' = likes + 1
  /\ Leave(c, "invalidateLike")
  /\ UNCHANGED <<mod, mark, deleted, rep, pageVars, historyVars>>

\* INSERT ... ON CONFLICT DO NOTHING; the count follows if a row was inserted.
\* The row of an account that is gone violates its foreign key.
SetLike(c) ==
  LET u == loc[c].user IN
  /\ pc[c] = "like" /\ like[u] \in {"none", "liked"}
  /\ like' = [like EXCEPT ![u] = "liked"]
  /\ likes' = IF like[u] = "none" THEN likes + 1 ELSE likes
  /\ Leave(c, "invalidateLike")
  /\ UNCHANGED <<mod, mark, deleted, rep, pageVars, historyVars>>

\* DELETE of the row; the count follows if a row was deleted, not below zero.
UnsetLike(c) ==
  LET u == loc[c].user IN
  /\ pc[c] = "unlike"
  /\ like' = [like EXCEPT ![u] = IF @ = "liked" THEN "none" ELSE @]
  /\ likes' = IF like[u] = "liked" /\ likes > 0 THEN likes - 1 ELSE likes
  /\ Leave(c, "invalidateLike")
  /\ UNCHANGED <<mod, mark, deleted, rep, pageVars, historyVars>>

\* An account is deleted for good: its like goes by ON DELETE CASCADE, which
\* leaves like_count alone.
AccountRemoved(u) ==
  /\ like[u] \in {"none", "liked"}
  /\ like' = [like EXCEPT ![u] = IF @ = "liked" THEN "orphaned" ELSE "gone"]
  /\ UNCHANGED <<mod, mark, deleted, rep, likes, callVars, pageVars, historyVars>>

----------------------------------------------------------------------------
(* Deletion, failures and time *)

\* delete_video: the feed and the owner's list are invalidated, search pages are
\* left to expire.
DeleteVideo(c) ==
  /\ pc[c] = "idle" /\ ~deleted
  /\ deleted' = TRUE
  /\ pc' = [pc EXCEPT ![c] = "invalidateOwn"]
  /\ UNCHANGED <<mod, mark, rep, likeVars, loc, pageVars, historyVars>>

\* bulk_delete_videos invalidates no public page.
BulkDelete(c) ==
  /\ pc[c] = "idle"
  /\ deleted' = TRUE
  /\ pc' = [pc EXCEPT ![c] = "invalidateMine"]
  /\ UNCHANGED <<mod, mark, rep, likeVars, loc, pageVars, historyVars>>

\* update_video_metadata reads the video; no change is answered at once.
UpdateRead(c, m) ==
  /\ pc[c] = "idle" /\ ~deleted /\ meta # m
  /\ pc' = [pc EXCEPT ![c] = "metadata"]
  /\ loc' = [loc EXCEPT ![c] = [NoLocal EXCEPT !.meta = {m}]]
  /\ UNCHANGED <<dbVars, pageVars, historyVars>>

\* UPDATE by id, deleted or not by now.
UpdateWrite(c) ==
  /\ pc[c] = "metadata"
  /\ meta' \in loc[c].meta
  /\ Leave(c, "invalidateOwn")
  /\ UNCHANGED <<dbVars, cache, reader, historyVars>>

\* A statement fails, the row is gone, the index refuses, the client hangs up.
CallFails(c) ==
  /\ pc[c] \notin {"idle"} \cup Invalidation
  /\ Rollback(c)
  /\ Leave(c, "idle")
  /\ overlap' = [overlap EXCEPT ![c] = {}]
  /\ UNCHANGED <<mod, mark, deleted, likeVars, pageVars, past>>

\* Reports leave the window of the rule in the order they were filed.
TimePasses(i) ==
  /\ Stored(i) /\ rep[i].recent
  /\ \A j \in 1 .. i - 1 : Stored(j) => ~rep[j].recent
  /\ rep' = [rep EXCEPT ![i].recent = FALSE]
  /\ UNCHANGED <<mod, mark, deleted, likeVars, callVars, pageVars, historyVars>>

\* purge_expired_reports deletes the reports filed before the retention
\* period, far longer than the window: those up to some old report n.  The
\* foreign key of the video becomes NULL.
PurgeExpiredReports(n) ==
  LET expired == {i \in 1 .. n : Stored(i)} IN
  /\ Stored(n) /\ \A i \in expired : ~rep[i].recent /\ ~Locked(i)
  /\ rep' = [i \in Report |-> IF i \in expired THEN [NoRow EXCEPT !.life = "purged"]
                                               ELSE rep[i]]
  /\ mark' = IF mark.source \in expired THEN [mark EXCEPT !.source = NoReport] ELSE mark
  /\ UNCHANGED <<mod, deleted, likeVars, callVars, pageVars, historyVars>>

----------------------------------------------------------------------------
(* Cached pages *)

\* invalidate_public_video_caches clears feed and search pages, a deletion or an
\* update the feed and the owner's list, a bulk deletion the list,
\* invalidate_like_related_caches the feed, the list and the search pages of the
\* user who liked (the cached one may be another's).
Cleared(p) ==
  CASE p = "invalidate"     -> {"feed", "search"}
    [] p = "invalidateOwn"  -> {"feed", "mine"}
    [] p = "invalidateMine" -> {"mine"}
    [] p = "invalidateLike" -> Surface

\* An error of Redis is ignored: the pages stay.
Invalidate(c) ==
  /\ pc[c] \in Invalidation
  /\ \E S \in SUBSET Cleared(pc[c]) :
       cache' = [s \in Surface |-> IF s \in S THEN {} ELSE cache[s]]
  /\ Leave(c, "idle")
  /\ UNCHANGED <<dbVars, meta, reader, historyVars>>

NotReading == [surface |-> "feed", busy |-> FALSE, found |-> {}]

\* A page is missing from the cache: the query, with its filters.
Query(r, s) ==
  /\ ~reader[r].busy /\ cache[s] = {}
  /\ reader' = [reader EXCEPT ![r] = [surface |-> s, busy |-> TRUE,
                                      found |-> IF Lists(s) THEN {meta} ELSE {}]]
  /\ UNCHANGED <<dbVars, meta, callVars, cache, historyVars>>

\* SET with a time to live, some time after the query and whatever happened
\* since; an error of Redis is ignored.
Store(r, s) ==
  /\ reader[r].surface = s /\ reader[r].busy
  /\ \/ cache' = [cache EXCEPT ![s] = reader[r].found]
     \/ UNCHANGED cache
  /\ reader' = [reader EXCEPT ![r] = NotReading]
  /\ UNCHANGED <<dbVars, meta, callVars, historyVars>>

\* GET /feed, sorted by date or popularity (a random feed is not cached).
FeedQuery(r) == Query(r, "feed")
FeedStore(r) == Store(r, "feed")

\* Mutant: as if the search listed deleted videos.
SearchQueryDeleted(r) ==
  /\ ~reader[r].busy /\ cache["search"] = {}
  /\ reader' = [reader EXCEPT ![r] = [surface |-> "search", busy |-> TRUE,
                                      found |-> IF mod = "VISIBLE" THEN {meta} ELSE {}]]
  /\ UNCHANGED <<dbVars, meta, callVars, cache, historyVars>>

\* GET /search, cached per user and query.
SearchQuery(r) == Query(r, "search")
SearchStore(r) == Store(r, "search")

\* GET /users/me/videos.
MineQuery(r) == Query(r, "mine")
MineStore(r) == Store(r, "mine")

\* The time to live of the page ends (300 s, search_cache_ttl_secs).
PageExpires(s) ==
  /\ cache[s] # {}
  /\ cache' = [cache EXCEPT ![s] = {}]
  /\ UNCHANGED <<dbVars, meta, callVars, reader, historyVars>>

----------------------------------------------------------------------------

Init ==
  /\ mod = "VISIBLE" /\ mark = Unmarked /\ deleted = FALSE
  /\ rep = [i \in Report |-> NoRow]
  /\ like = [u \in Liker |-> "none"] /\ likes = 0
  /\ pc = [c \in Call |-> "idle"]
  /\ loc = [c \in Call |-> NoLocal]
  /\ meta = (CHOOSE m \in Meta : TRUE)
  /\ cache = [s \in Surface |-> {}]
  /\ reader = [r \in Reader |-> NotReading]
  /\ past = "none"
  /\ overlap = [c \in Call |-> {}]

Submit(c) ==
  \/ \E u \in Reporter, g \in Grade : SubmitBegin(c, u, g)
  \/ SubmitFind(c) \/ SubmitUpdate(c) \/ AutoRead(c) \/ SubmitCommit(c) \/ AutoQuarantine(c)
  \/ \E i \in Report : SubmitInsert(c, i)

Administer(c) ==
  \/ \E a \in Action : ModerateRead(c, a)
  \/ \E i \in Report, s \in Resolution : ResolveRead(c, i, s)
  \/ ModerateWrite(c) \/ ResolveWrite(c)

LikeCall(c) ==
  \/ \E u \in Liker, p \in {"like", "unlike"} : LikeBegin(c, u, p)
  \/ SetLike(c) \/ UnsetLike(c)

Next ==
  \/ \E c \in Call : \/ Submit(c) \/ Administer(c) \/ LikeCall(c)
                     \/ DeleteVideo(c) \/ BulkDelete(c)
                     \/ \E m \in Meta : UpdateRead(c, m)
                     \/ UpdateWrite(c) \/ CallFails(c) \/ Invalidate(c)
  \/ \E i \in Report : TimePasses(i) \/ PurgeExpiredReports(i)
  \/ \E u \in Liker : AccountRemoved(u)
  \/ \E r \in Reader : FeedQuery(r) \/ FeedStore(r) \/ SearchQuery(r) \/ SearchStore(r)
                       \/ MineQuery(r) \/ MineStore(r)
  \/ \E s \in Surface : PageExpires(s)

Spec == Init /\ [][Next]_vars

\* A started page fill ends and every cached page expires.
FairSpec ==
  /\ Spec
  /\ \A r \in Reader : WF_vars(FeedStore(r) \/ SearchStore(r) \/ MineStore(r))
  /\ \A s \in Surface : WF_vars(PageExpires(s))

----------------------------------------------------------------------------
(* Properties *)

Step == {"idle", "find", "insert", "update", "moderate", "quarantine", "stamp", "commit",
         "admin", "resolve", "like", "unlike", "metadata"} \cup Invalidation
Row == [life : {"free", "pending", "open", "closed", "purged"},
        by : Reporter \cup {NoUser}, severe : BOOLEAN,
        status : {"open", "auto_quarantined", "resolved", "rejected"}, recent : BOOLEAN]
Local == [user : Reporter \cup Liker \cup {NoUser}, grade : Grade,
          report : Report \cup {NoReport}, act : Action,
          status : {"resolved", "rejected"}, meta : SUBSET Meta]
Mark == [reason : {"none", "admin", "auto"}, source : Report \cup {NoReport}]

VideoType == mod \in Moderation /\ mark \in Mark /\ deleted \in BOOLEAN /\ meta \in Meta
LikeType == like \in [Liker -> {"none", "liked", "gone", "orphaned"}] /\ likes \in Nat
CallType == pc \in [Call -> Step] /\ loc \in [Call -> Local]
PageType ==
  /\ cache \in [Surface -> SUBSET Meta]
  /\ reader \in [Reader -> [surface : Surface, busy : BOOLEAN, found : SUBSET Meta]]
HistoryType ==
  /\ past \in {"none", "raced", "moderated"}
  /\ overlap \in [Call -> SUBSET {"removed", "closed"}]

\* Types.
TypeOK ==
  VideoType /\ rep \in [Report -> Row] /\ LikeType /\ CallType /\ PageType /\ HistoryType

\* A video nobody moderated that stays up has fewer severe reporters in the
\* window than the threshold, unless two of their transactions overlapped and
\* neither counted the other's report.
SevereAreCounted ==
  mod = "VISIBLE" /\ past = "none" =>
    Cardinality({rep[i].by : i \in {j \in Report :
        rep[j].life = "open" /\ rep[j].recent /\ rep[j].severe}}) < Threshold

\* What was decided stays decided.  A removed video leaves that state by an
\* administrator's action, or by an automatic quarantine that was in flight when
\* it was removed (the video is read again without looking for REMOVED); a
\* closed report keeps its resolution and its reasons, unless a call that had
\* read it while it was open writes it after the close.
DecisionsStay ==
  [][/\ mod = "REMOVED" /\ mod' # mod =>
          \E c \in Call : \/ pc[c] = "admin"
                          \/ pc[c] = "quarantine" /\ "removed" \in overlap[c]
     /\ \A i \in Report :
          rep[i].life = "closed" /\ rep'[i].life = "closed"
            /\ [rep[i] EXCEPT !.recent = TRUE] # [rep'[i] EXCEPT !.recent = TRUE] =>
          \E c \in Call : loc[c].report = i /\ pc'[c] # pc[c] /\ "closed" \in overlap[c]]_vars

\* like_count is the number of likes, over by one for each account that was
\* deleted while it liked the video.
LikesCounted ==
  likes = Cardinality({u \in Liker : like[u] \in {"liked", "orphaned"}})

\* The cached pages catch up.  A video that is hidden for good is at last on no
\* cached page that should not list it, and one that is changed no more is
\* listed with its last metadata only, however late a query made before stores
\* its page and whatever the deletion or the update failed to invalidate.
PagesCatchUp ==
  /\ \A s \in Surface : <>[](~Lists(s)) => <>[](cache[s] = {})
  /\ \A m \in Meta : <>[](meta = m) => <>[](\A s \in Surface : cache[s] \subseteq {m})
=============================================================================
