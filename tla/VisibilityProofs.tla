-------------------------- MODULE VisibilityProofs --------------------------
(***************************************************************************)
(* Proofs about Visibility, for any calls, reporters, likers, reports and  *)
(* threshold.                                                              *)
(*                                                                         *)
(* A count or a decision is made at one statement of a transaction and     *)
(* takes effect at a later one.  RefInv says which row each call refers to *)
(* meanwhile and that no two transactions hold the same one; OverlapInv    *)
(* that what was decided behind a call's back is on its record; CountInv   *)
(* that a count which did not reach the threshold is still right when its  *)
(* transaction commits, unless two transactions overlapped.                *)
(***************************************************************************)
EXTENDS Visibility, FiniteSetTheorems, TLAPS

Holding == {"moderate", "quarantine", "stamp", "commit"}
Referring == {"update", "resolve"} \cup Holding
Filing == {"find", "insert", "update"} \cup Holding

\* What a call's position says about its local variables and its report.
RefInv(c) ==
  /\ pc[c] \in Filing => loc[c].user \in Reporter
  /\ pc[c] \in {"like", "unlike"} => loc[c].user \in Liker
  /\ pc[c] \in Referring => loc[c].report \in Report /\ rep[loc[c].report].life # "free"
  /\ pc[c] \in {"update", "resolve"} => rep[loc[c].report].life # "pending"
  /\ pc[c] \in Holding =>
       /\ rep[loc[c].report].life # "purged"
       /\ rep[loc[c].report].life = "pending" => rep[loc[c].report].by = loc[c].user
       /\ \A d \in Call : pc[d] \in Holding /\ loc[d].report = loc[c].report => d = c
  /\ pc[c] = "commit" => loc[c].grade # "immediate"

\* What was decided behind the back of a call is on its record.
OverlapInv(c) ==
  /\ mod = "REMOVED" /\ pc[c] \in Filing => "removed" \in overlap[c]
  /\ pc[c] \in Referring /\ rep[loc[c].report].life = "closed" => "closed" \in overlap[c]

\* The reporters of the open reports of the window, and the one whose report the
\* transaction of c holds uncommitted.
Counted == {rep[i].by : i \in {j \in Report : rep[j].life = "open" /\ rep[j].recent}}
Severe == {rep[i].by : i \in {j \in Report : rep[j].life = "open" /\ rep[j].recent /\ rep[j].severe}}
Own(c) == {u \in Reporter : rep[loc[c].report].life = "pending" /\ u = loc[c].user}

\* On a video that is up and untouched, a transaction that did not quarantine it
\* still has a count below the threshold.
CountInv ==
  mod = "VISIBLE" /\ past = "none" =>
    /\ Cardinality(Severe) < Threshold
    /\ \A c \in Call :
         /\ pc[c] # "stamp"
         /\ pc[c] = "commit" /\ loc[c].grade = "severe" =>
              Cardinality(Counted \cup Own(c)) < Threshold

Inv ==
  /\ TypeOK /\ LikesCounted /\ CountInv
  /\ \A c \in Call : RefInv(c) /\ OverlapInv(c)

-----------------------------------------------------------------------------
(* Groups of steps that leave much alone. *)

\* Steps of cached pages.
PageStep ==
  \/ \E r \in Reader : FeedQuery(r) \/ FeedStore(r) \/ SearchQuery(r) \/ SearchStore(r)
                       \/ MineQuery(r) \/ MineStore(r)
  \/ \E s \in Surface : PageExpires(s)

LEMMA PageStepFrame ==
  ASSUME PageStep
  PROVE  UNCHANGED <<mod, mark, deleted, rep, like, likes, pc, loc, meta, past, overlap>>
BY DEF PageStep, FeedQuery, FeedStore, SearchQuery, SearchStore, MineQuery, MineStore, Query, Store,
   PageExpires, dbVars, callVars, historyVars

\* Steps of a call that touch neither reports, moderation nor likes.
PlainStep(c) ==
  \/ \E u \in Reporter, g \in Grade : SubmitBegin(c, u, g)
  \/ SubmitFind(c) \/ SubmitUpdate(c) \/ AutoRead(c)
  \/ \E a \in Action : ModerateRead(c, a)
  \/ \E j \in Report, t \in Resolution : ResolveRead(c, j, t)
  \/ \E u \in Liker, p \in {"like", "unlike"} : LikeBegin(c, u, p)
  \/ DeleteVideo(c) \/ BulkDelete(c) \/ (\E m \in Meta : UpdateRead(c, m))
  \/ UpdateWrite(c) \/ Invalidate(c)

LEMMA PlainFrame ==
  ASSUME NEW c \in Call, PlainStep(c)
  PROVE  UNCHANGED <<mod, mark, rep, like, likes, past, overlap>>
BY DEF PlainStep, SubmitBegin, SubmitFind, SubmitUpdate, AutoRead, ModerateRead, ResolveRead, LikeBegin,
   DeleteVideo, BulkDelete, UpdateRead, UpdateWrite, Invalidate, dbVars, likeVars, historyVars

\* Steps of a call that change reports, moderation or likes.
WriteStep(c) ==
  \/ \E i \in Report : SubmitInsert(c, i)
  \/ SubmitCommit(c) \/ AutoQuarantine(c) \/ ModerateWrite(c) \/ ResolveWrite(c)
  \/ SetLike(c) \/ UnsetLike(c) \/ CallFails(c)

\* Every step is of one of these kinds.
LEMMA StepKinds ==
  ASSUME [Next]_vars
  PROVE  \/ UNCHANGED vars \/ PageStep
         \/ \E u \in Liker : AccountRemoved(u)
         \/ \E i \in Report : TimePasses(i) \/ PurgeExpiredReports(i)
         \/ \E c \in Call : PlainStep(c) \/ WriteStep(c)
<1>1. CASE UNCHANGED vars
  BY <1>1
<1>2. ASSUME NEW c \in Call, Submit(c) \/ Administer(c) \/ LikeCall(c)
      PROVE  PlainStep(c) \/ WriteStep(c)
  <2>1. Submit(c) => PlainStep(c) \/ WriteStep(c)
    BY Zenon DEF Submit, PlainStep, WriteStep
  <2>2. Administer(c) => PlainStep(c) \/ WriteStep(c)
    BY Zenon DEF Administer, PlainStep, WriteStep
  <2>3. LikeCall(c) => PlainStep(c) \/ WriteStep(c)
    BY Zenon DEF LikeCall, PlainStep, WriteStep
  <2> QED
    BY <1>2, <2>1, <2>2, <2>3
<1>3. ASSUME NEW c \in Call,
             \/ DeleteVideo(c) \/ BulkDelete(c)
             \/ \E m \in Meta : UpdateRead(c, m)
             \/ UpdateWrite(c) \/ CallFails(c) \/ Invalidate(c)
      PROVE  PlainStep(c) \/ WriteStep(c)
  BY <1>3, Zenon DEF PlainStep, WriteStep
<1>4. CASE Next
  <2>1. \/ \E c \in Call : PlainStep(c) \/ WriteStep(c)
        \/ \E i \in Report : TimePasses(i) \/ PurgeExpiredReports(i)
        \/ \E u \in Liker : AccountRemoved(u)
        \/ \E r \in Reader : FeedQuery(r) \/ FeedStore(r) \/ SearchQuery(r) \/ SearchStore(r)
                       \/ MineQuery(r) \/ MineStore(r)
        \/ \E s \in Surface : PageExpires(s)
    BY <1>2, <1>3, <1>4 DEF Next
  <2> QED
    BY <2>1 DEF PageStep
<1> QED
  BY <1>1, <1>4

-----------------------------------------------------------------------------
(* Types. *)

LEMMA VideoNext == ASSUME TypeOK, [Next]_vars PROVE VideoType'
<1> USE VisibilityAssumption DEF TypeOK, VideoType
<1>1. CASE UNCHANGED vars \/ PageStep \/ \E u \in Liker : AccountRemoved(u)
  BY <1>1, PageStepFrame DEF vars, AccountRemoved, pageVars
<1>2. ASSUME NEW i \in Report, TimePasses(i) PROVE VideoType'
  BY <1>2 DEF TimePasses, pageVars
<1>3. ASSUME NEW i \in Report, PurgeExpiredReports(i) PROVE VideoType'
  BY <1>3 DEF PurgeExpiredReports, pageVars, Mark
<1>4. ASSUME NEW c \in Call, PlainStep(c) PROVE VideoType'
  <2>1. mod' = mod /\ mark' = mark
    BY <1>4, PlainFrame
  <2>2. deleted' \in BOOLEAN
    BY <1>4 DEF PlainStep, SubmitBegin, SubmitFind, SubmitUpdate, AutoRead, ModerateRead, ResolveRead, LikeBegin,
       DeleteVideo, BulkDelete, UpdateRead, UpdateWrite, Invalidate, dbVars
  <2>3. CASE UpdateWrite(c)
    BY <2>1, <2>2, <2>3 DEF UpdateWrite, CallType, Local
  <2>4. CASE ~UpdateWrite(c)
    BY <1>4, <2>1, <2>2, <2>4 DEF PlainStep, SubmitBegin, SubmitFind, SubmitUpdate, AutoRead, ModerateRead,
       ResolveRead, LikeBegin, DeleteVideo, BulkDelete, UpdateRead, Invalidate, pageVars
  <2> QED
    BY <2>3, <2>4
<1>5. ASSUME NEW c \in Call, (\E i \in Report : SubmitInsert(c, i)) \/ SubmitCommit(c) \/ ResolveWrite(c)
               \/ SetLike(c) \/ UnsetLike(c) \/ CallFails(c)
      PROVE  VideoType'
  BY <1>5 DEF SubmitInsert, SubmitCommit, ResolveWrite, SetLike, UnsetLike, CallFails, pageVars
<1>6. ASSUME NEW c \in Call, AutoQuarantine(c) PROVE VideoType'
  <2>1. loc[c].report \in Report \cup {NoReport}
    BY DEF CallType, Local
  <2> QED
    BY <1>6, <2>1 DEF AutoQuarantine, pageVars, Moderation, Mark
<1>7. ASSUME NEW c \in Call, ModerateWrite(c) PROVE VideoType'
  <2>1. loc[c].act \in Action
    BY DEF CallType, Local
  <2>2. Target(loc[c].act) \in Moderation /\ NextMark(loc[c].act) \in Mark
    BY <2>1 DEF Action, Target, NextMark, Moderation, Mark
  <2> QED
    BY <1>7, <2>2 DEF ModerateWrite, pageVars
<1> QED
  BY <1>1, <1>2, <1>3, <1>4, <1>5, <1>6, <1>7, StepKinds DEF WriteStep

LEMMA CallNext == ASSUME TypeOK, [Next]_vars PROVE CallType'
<1> USE VisibilityAssumption DEF TypeOK, CallType
<1>1. CASE UNCHANGED vars \/ PageStep \/ \E u \in Liker : AccountRemoved(u)
  BY <1>1, PageStepFrame DEF vars, AccountRemoved, callVars
<1>2. ASSUME NEW i \in Report, TimePasses(i) \/ PurgeExpiredReports(i) PROVE CallType'
  BY <1>2 DEF TimePasses, PurgeExpiredReports, callVars
<1>3. NoLocal \in Local
  BY DEF NoLocal, Local, Grade, Action
<1>4. ASSUME NEW c \in Call, NEW p \in Step, Leave(c, p) PROVE CallType'
  BY <1>3, <1>4 DEF Leave
<1>5. ASSUME NEW c \in Call, NEW l \in Local, NEW p \in Step,
             pc' = [pc EXCEPT ![c] = p], loc' = [loc EXCEPT ![c] = l]
      PROVE  CallType'
  BY <1>5
<1>6. ASSUME NEW c \in Call, NEW u \in Reporter, NEW g \in Grade, SubmitBegin(c, u, g) PROVE CallType'
  <2>1. [NoLocal EXCEPT !.user = u, !.grade = g] \in Local
    BY <1>3, <1>6 DEF Local
  <2> QED
    BY <1>5, <1>6, <2>1 DEF SubmitBegin, Step
<1>7. ASSUME NEW c \in Call, SubmitFind(c) PROVE CallType'
  <2>1. \A i \in Report : [loc[c] EXCEPT !.report = i] \in Local
    BY <1>7 DEF Local
  <2> QED
    BY <1>7, <2>1 DEF SubmitFind, Step, OpenBy
<1>8. ASSUME NEW c \in Call, SubmitUpdate(c) \/ AutoRead(c) \/ DeleteVideo(c) \/ BulkDelete(c) PROVE CallType'
  BY <1>8 DEF SubmitUpdate, AutoRead, DeleteVideo, BulkDelete, Step, Invalidation
<1>9. ASSUME NEW c \in Call, NEW a \in Action, ModerateRead(c, a) PROVE CallType'
  <2>1. [NoLocal EXCEPT !.act = a] \in Local
    BY <1>3, <1>9 DEF Local
  <2> QED
    BY <1>5, <1>9, <2>1 DEF ModerateRead, Step
<1>10. ASSUME NEW c \in Call, NEW i \in Report, NEW s \in Resolution, ResolveRead(c, i, s) PROVE CallType'
  <2>1. [NoLocal EXCEPT !.report = i, !.status = s] \in Local
    BY <1>3, <1>10 DEF Local
  <2> QED
    BY <1>5, <1>10, <2>1 DEF ResolveRead, Step
<1>11. ASSUME NEW c \in Call, NEW u \in Liker, NEW p \in {"like", "unlike"}, LikeBegin(c, u, p) PROVE CallType'
  <2>1. [NoLocal EXCEPT !.user = u] \in Local
    BY <1>3, <1>11 DEF Local
  <2> QED
    BY <1>5, <1>11, <2>1 DEF LikeBegin, Step
<1>12. ASSUME NEW c \in Call, NEW m \in Meta, UpdateRead(c, m) PROVE CallType'
  <2>1. [NoLocal EXCEPT !.meta = {m}] \in Local
    BY <1>3, <1>12 DEF Local
  <2> QED
    BY <1>5, <1>12, <2>1 DEF UpdateRead, Step
<1>13. ASSUME NEW c \in Call, NEW i \in Report, SubmitInsert(c, i) PROVE CallType'
  <2>1. [loc[c] EXCEPT !.report = i] \in Local
    BY <1>13 DEF Local
  <2>2. loc' = [loc EXCEPT ![c] = [loc[c] EXCEPT !.report = i]] /\ \E p \in Step : pc' = [pc EXCEPT ![c] = p]
    BY <1>13 DEF SubmitInsert, Step
  <2> QED
    BY <1>5, <2>1, <2>2
<1>14. ASSUME NEW c \in Call,
              \/ SubmitCommit(c) \/ AutoQuarantine(c) \/ ModerateWrite(c) \/ ResolveWrite(c)
              \/ SetLike(c) \/ UnsetLike(c) \/ CallFails(c) \/ UpdateWrite(c) \/ Invalidate(c)
       PROVE  CallType'
  <2>1. \E p \in Step : Leave(c, p)
    BY <1>14 DEF SubmitCommit, AutoQuarantine, ModerateWrite, ResolveWrite, SetLike, UnsetLike, CallFails,
       UpdateWrite, Invalidate, Step, Invalidation
  <2> QED
    BY <1>4, <2>1
<1>15. ASSUME NEW c \in Call, PlainStep(c) \/ WriteStep(c) PROVE CallType'
  BY <1>6, <1>7, <1>8, <1>9, <1>10, <1>11, <1>12, <1>13, <1>14, <1>15 DEF PlainStep, WriteStep
<1> QED
  BY <1>1, <1>2, <1>15, StepKinds

LEMMA PageNext == ASSUME TypeOK, [Next]_vars PROVE PageType'
<1> USE VisibilityAssumption DEF TypeOK, PageType
<1>1. CASE UNCHANGED <<cache, reader>>
  BY <1>1
<1>2. ASSUME NEW r \in Reader, NEW s \in Surface, Query(r, s) PROVE PageType'
  <2>1. meta \in Meta
    BY DEF VideoType
  <2>2. [surface |-> s, busy |-> TRUE, found |-> IF Lists(s) THEN {meta} ELSE {}]
          \in [surface : Surface, busy : BOOLEAN, found : SUBSET Meta]
    BY <1>2, <2>1
  <2> QED
    BY <1>2, <2>2 DEF Query
<1>3. ASSUME NEW r \in Reader, NEW s \in Surface, Store(r, s) PROVE PageType'
  <2>1. NotReading \in [surface : Surface, busy : BOOLEAN, found : SUBSET Meta]
    BY DEF NotReading, Surface
  <2>2. reader[r].found \in SUBSET Meta
    BY <1>3
  <2>3. reader' \in [Reader -> [surface : Surface, busy : BOOLEAN, found : SUBSET Meta]]
    BY <1>3, <2>1 DEF Store
  <2>4. cache' = cache \/ cache' = [cache EXCEPT ![s] = reader[r].found]
    BY <1>3 DEF Store
  <2>5. cache' \in [Surface -> SUBSET Meta]
    BY <2>2, <2>4
  <2> QED
    BY <2>3, <2>5
<1>4. ASSUME NEW s \in Surface, PageExpires(s) PROVE PageType'
  BY <1>4 DEF PageExpires
<1>5. "feed" \in Surface /\ "search" \in Surface /\ "mine" \in Surface
  BY DEF Surface
<1>6. CASE PageStep
  BY <1>2, <1>3, <1>4, <1>5, <1>6 DEF PageStep, FeedQuery, FeedStore, SearchQuery, SearchStore, MineQuery, MineStore
<1>7. ASSUME NEW c \in Call, Invalidate(c) PROVE PageType'
  BY <1>7 DEF Invalidate
<1>8. ASSUME NEW c \in Call, PlainStep(c), ~Invalidate(c) PROVE UNCHANGED <<cache, reader>>
  BY <1>8 DEF PlainStep, SubmitBegin, SubmitFind, SubmitUpdate, AutoRead, ModerateRead, ResolveRead, LikeBegin,
     DeleteVideo, BulkDelete, UpdateRead, UpdateWrite, pageVars
<1>9. ASSUME NEW c \in Call, WriteStep(c) PROVE UNCHANGED <<cache, reader>>
  BY <1>9 DEF WriteStep, SubmitInsert, SubmitCommit, AutoQuarantine, ModerateWrite, ResolveWrite, SetLike, UnsetLike,
     CallFails, pageVars
<1>10. ASSUME NEW i \in Report, TimePasses(i) \/ PurgeExpiredReports(i) PROVE UNCHANGED <<cache, reader>>
  BY <1>10 DEF TimePasses, PurgeExpiredReports, pageVars
<1>11. ASSUME NEW u \in Liker, AccountRemoved(u) PROVE UNCHANGED <<cache, reader>>
  BY <1>11 DEF AccountRemoved, pageVars
<1>12. CASE UNCHANGED vars
  BY <1>12 DEF vars
<1> QED
  BY <1>1, <1>6, <1>7, <1>8, <1>9, <1>10, <1>11, <1>12, StepKinds

LEMMA HistoryNext == ASSUME TypeOK, [Next]_vars PROVE HistoryType'
<1> USE VisibilityAssumption DEF TypeOK, HistoryType
<1>1. CASE UNCHANGED <<past, overlap>>
  BY <1>1
<1>2. CASE \/ UNCHANGED vars \/ PageStep \/ (\E u \in Liker : AccountRemoved(u))
           \/ \E i \in Report : TimePasses(i) \/ PurgeExpiredReports(i)
  BY <1>1, <1>2, PageStepFrame DEF vars, AccountRemoved, TimePasses, PurgeExpiredReports, historyVars
<1>3. ASSUME NEW c \in Call, PlainStep(c) PROVE HistoryType'
  BY <1>1, <1>3, PlainFrame
<1>4. ASSUME NEW c \in Call,
             (\E i \in Report : SubmitInsert(c, i)) \/ SetLike(c) \/ UnsetLike(c)
      PROVE  HistoryType'
  BY <1>1, <1>4 DEF SubmitInsert, SetLike, UnsetLike, historyVars
<1>5. ASSUME NEW c \in Call, SubmitCommit(c) \/ AutoQuarantine(c) \/ CallFails(c) PROVE HistoryType'
  <2>1. overlap' = [overlap EXCEPT ![c] = {}]
    BY <1>5 DEF SubmitCommit, AutoQuarantine, CallFails
  <2>2. past' \in {past, "raced"}
    BY <1>5 DEF SubmitCommit, AutoQuarantine, CallFails
  <2> QED
    BY <2>1, <2>2
<1>6. ASSUME NEW c \in Call, ModerateWrite(c) \/ ResolveWrite(c) PROVE HistoryType'
  <2>1. past' \in {past, "moderated"}
    BY <1>6 DEF ModerateWrite, ResolveWrite
  <2>2. CASE ModerateWrite(c)
    BY <2>1, <2>2 DEF ModerateWrite
  <2>3. CASE ResolveWrite(c)
    BY <2>1, <2>3 DEF ResolveWrite
  <2> QED
    BY <1>6, <2>2, <2>3
<1> QED
  BY <1>2, <1>3, <1>4, <1>5, <1>6, StepKinds DEF WriteStep

\* What a commit makes of a row.
LEMMA WrittenFacts ==
  ASSUME TypeOK, NEW c \in Call, NEW i \in Report
  PROVE  /\ Written(c, i) \in Row
         /\ Written(c, i).life = (IF rep[i].life = "pending" THEN "open" ELSE rep[i].life)
         /\ Written(c, i).by = rep[i].by /\ Written(c, i).recent = rep[i].recent
         /\ Written(c, i).severe = (loc[c].grade # "mild")
<1>1. rep[i] \in Row
  BY DEF TypeOK
<1> QED
  BY <1>1 DEF Written, Row

LEMMA ReportNext ==
  ASSUME TypeOK, \A c \in Call : RefInv(c), [Next]_vars PROVE rep' \in [Report -> Row]
<1> USE VisibilityAssumption
<1>1. CASE UNCHANGED rep
  BY <1>1 DEF TypeOK
<1>2. NoRow \in Row /\ [NoRow EXCEPT !.life = "purged"] \in Row
  BY DEF NoRow, Row
<1>3. ASSUME NEW i \in Report, TimePasses(i) PROVE rep' \in [Report -> Row]
  <2>1. [rep[i] EXCEPT !.recent = FALSE] \in Row
    BY <1>3 DEF TypeOK, Row
  <2>2. rep' = [rep EXCEPT ![i] = [rep[i] EXCEPT !.recent = FALSE]]
    BY <1>3 DEF TimePasses
  <2> QED
    BY <2>1, <2>2 DEF TypeOK
<1>4. ASSUME NEW n \in Report, PurgeExpiredReports(n) PROVE rep' \in [Report -> Row]
  BY <1>2, <1>4 DEF PurgeExpiredReports, TypeOK
<1>5. ASSUME NEW c \in Call, NEW i \in Report, SubmitInsert(c, i) PROVE rep' \in [Report -> Row]
  <2>1. loc[c].user \in Reporter
    BY <1>5 DEF SubmitInsert, RefInv, Filing
  <2>2. [life |-> "pending", by |-> loc[c].user, severe |-> loc[c].grade # "mild",
         status |-> "open", recent |-> TRUE] \in Row
    BY <2>1 DEF Row
  <2> QED
    BY <1>5, <2>2 DEF SubmitInsert, TypeOK
<1>6. ASSUME NEW c \in Call, SubmitCommit(c) \/ AutoQuarantine(c) PROVE rep' \in [Report -> Row]
  <2>1. loc[c].report \in Report /\ rep' = [rep EXCEPT ![loc[c].report] = Written(c, loc[c].report)]
    BY <1>6 DEF SubmitCommit, AutoQuarantine, RefInv, Referring, Holding
  <2>2. Written(c, loc[c].report) \in Row
    BY <2>1, WrittenFacts
  <2> QED
    BY <2>1, <2>2 DEF TypeOK
<1>7. ASSUME NEW c \in Call, ResolveWrite(c) PROVE rep' \in [Report -> Row]
  <2> DEFINE i == loc[c].report
  <2>1. i \in Report /\ loc[c].status \in {"resolved", "rejected"}
    BY <1>7 DEF ResolveWrite, RefInv, Referring, TypeOK, CallType, Local
  <2>2. [rep[i] EXCEPT !.life = "closed", !.status = loc[c].status] \in Row
    <3>1. \A row \in Row, t \in {"resolved", "rejected"} :
            [row EXCEPT !.life = "closed", !.status = t] \in Row
      BY DEF Row
    <3>2. rep[i] \in Row
      BY <2>1 DEF TypeOK
    <3> QED
      BY <2>1, <3>1, <3>2
  <2>3. rep' = [rep EXCEPT ![i] = [rep[i] EXCEPT !.life = "closed", !.status = loc[c].status]]
    BY <1>7, <2>1 DEF ResolveWrite, TypeOK
  <2> QED
    BY <2>1, <2>2, <2>3 DEF TypeOK
<1>8. ASSUME NEW c \in Call, CallFails(c) PROVE rep' \in [Report -> Row]
  BY <1>2, <1>8 DEF CallFails, Rollback, TypeOK
<1>9. ASSUME NEW c \in Call, ModerateWrite(c) \/ SetLike(c) \/ UnsetLike(c) PROVE rep' = rep
  BY <1>9 DEF ModerateWrite, SetLike, UnsetLike
<1>10. CASE UNCHANGED vars \/ PageStep \/ (\E u \in Liker : AccountRemoved(u)) \/ \E c \in Call : PlainStep(c)
  BY <1>1, <1>10, PageStepFrame, PlainFrame DEF vars, AccountRemoved
<1> QED
  BY <1>1, <1>3, <1>4, <1>5, <1>6, <1>7, <1>8, <1>9, <1>10, StepKinds DEF WriteStep

-----------------------------------------------------------------------------
(* Likes. *)

Likers == {u \in Liker : like[u] \in {"liked", "orphaned"}}

\* like_count follows the rows of likes, and the ones that went with their account.
LEMMA LikesNext ==
  ASSUME TypeOK, LikesCounted, \A c \in Call : RefInv(c), [Next]_vars
  PROVE  LikeType' /\ LikesCounted'
<1> USE VisibilityAssumption
<1>0. /\ IsFiniteSet(Likers) /\ likes = Cardinality(Likers)
      /\ like \in [Liker -> {"none", "liked", "gone", "orphaned"}] /\ likes \in Nat
  BY FS_Subset DEF Likers, LikesCounted, TypeOK, LikeType
<1>1. ASSUME like' = like, likes' = likes PROVE LikeType' /\ LikesCounted'
  BY <1>1 DEF LikeType, LikesCounted, TypeOK
<1>2. ASSUME like' \in [Liker -> {"none", "liked", "gone", "orphaned"}], likes' \in Nat,
             likes' = Cardinality(Likers')
      PROVE  LikeType' /\ LikesCounted'
  BY <1>2 DEF LikeType, LikesCounted, Likers
<1>3. ASSUME NEW u \in Liker, AccountRemoved(u) PROVE LikeType' /\ LikesCounted'
  <2>1. like' \in [Liker -> {"none", "liked", "gone", "orphaned"}] /\ likes' = likes
    BY <1>0, <1>3 DEF AccountRemoved
  <2>2. Likers' = Likers
    BY <1>0, <1>3 DEF AccountRemoved, Likers
  <2> QED
    BY <1>0, <1>2, <2>1, <2>2
<1>4. ASSUME NEW c \in Call, SetLike(c) PROVE LikeType' /\ LikesCounted'
  <2> DEFINE u == loc[c].user
  <2>1. u \in Liker
    BY <1>4 DEF SetLike, RefInv
  <2>2. like' \in [Liker -> {"none", "liked", "gone", "orphaned"}] /\ like[u] \in {"none", "liked"}
    BY <1>0, <1>4, <2>1 DEF SetLike
  <2>3. Likers' = Likers \cup {u} /\ (u \in Likers <=> like[u] = "liked")
    BY <1>0, <1>4, <2>1, <2>2 DEF SetLike, Likers
  <2>4. Cardinality(Likers \cup {u}) = IF u \in Likers THEN Cardinality(Likers) ELSE Cardinality(Likers) + 1
    BY <1>0, FS_AddElement
  <2>5. likes' = IF like[u] = "none" THEN likes + 1 ELSE likes
    BY <1>4 DEF SetLike
  <2> HIDE DEF u
  <2>6. likes' \in Nat /\ likes' = Cardinality(Likers')
    BY <1>0, <2>2, <2>3, <2>4, <2>5
  <2> QED
    BY <1>2, <2>2, <2>6
<1>5. ASSUME NEW c \in Call, UnsetLike(c) PROVE LikeType' /\ LikesCounted'
  <2> DEFINE u == loc[c].user
  <2>1. u \in Liker
    BY <1>5 DEF UnsetLike, RefInv
  <2>2. like' \in [Liker -> {"none", "liked", "gone", "orphaned"}]
    BY <1>0, <1>5, <2>1 DEF UnsetLike
  <2>3. CASE like[u] = "liked"
    <3>1. u \in Likers /\ Likers' = Likers \ {u}
      BY <1>0, <1>5, <2>1, <2>3 DEF UnsetLike, Likers
    <3>2. Cardinality(Likers \ {u}) = Cardinality(Likers) - 1 /\ Cardinality(Likers \ {u}) \in Nat
      BY <1>0, <3>1, FS_RemoveElement, FS_CardinalityType
    <3>3. likes' = IF likes > 0 THEN likes - 1 ELSE likes
      BY <1>5, <2>3 DEF UnsetLike
    <3> QED
      BY <1>0, <1>2, <2>2, <3>1, <3>2, <3>3
  <2>4. CASE like[u] # "liked"
    <3>1. likes' = likes /\ like' = like
      BY <1>0, <1>5, <2>1, <2>4 DEF UnsetLike
    <3> QED
      BY <1>1, <3>1
  <2> QED
    BY <2>3, <2>4
<1>6. ASSUME NEW c \in Call,
             \/ (\E i \in Report : SubmitInsert(c, i)) \/ SubmitCommit(c) \/ AutoQuarantine(c)
             \/ ModerateWrite(c) \/ ResolveWrite(c) \/ CallFails(c)
      PROVE  like' = like /\ likes' = likes
  BY <1>6 DEF SubmitInsert, SubmitCommit, AutoQuarantine, ModerateWrite, ResolveWrite, CallFails, likeVars
<1>7. CASE \/ UNCHANGED vars \/ PageStep \/ (\E c \in Call : PlainStep(c))
           \/ \E i \in Report : TimePasses(i) \/ PurgeExpiredReports(i)
  BY <1>1, <1>7, PageStepFrame, PlainFrame DEF vars, TimePasses, PurgeExpiredReports, likeVars
<1> QED
  BY <1>1, <1>3, <1>4, <1>5, <1>6, <1>7, StepKinds DEF WriteStep

-----------------------------------------------------------------------------
(* Calls and the reports they refer to. *)

\* How a step of call c changes the rows: the lives, the reporters and the window.
LEMMA CommitRows ==
  ASSUME TypeOK, NEW c \in Call, RefInv(c), SubmitCommit(c) \/ AutoQuarantine(c)
  PROVE  /\ pc[c] \in Holding /\ loc[c].report \in Report
         /\ \A j \in Report : j # loc[c].report => rep'[j] = rep[j]
         /\ rep'[loc[c].report] = Written(c, loc[c].report)
BY DEF TypeOK, SubmitCommit, AutoQuarantine, RefInv, Referring, Holding

LEMMA ResolveRows ==
  ASSUME TypeOK, NEW c \in Call, RefInv(c), ResolveWrite(c)
  PROVE  /\ pc[c] = "resolve" /\ loc[c].report \in Report
         /\ \A j \in Report : j # loc[c].report => rep'[j] = rep[j]
         /\ rep[loc[c].report].life \in {"open", "closed"} /\ rep'[loc[c].report].life = "closed"
         /\ \A d \in Call : pc[d] \in Holding => loc[d].report # loc[c].report
<1>1. loc[c].report \in Report /\ rep[loc[c].report] \in Row
  BY DEF TypeOK, ResolveWrite, RefInv, Referring
<1> QED
  BY <1>1 DEF TypeOK, Row, ResolveWrite, Stored, Locked, InTransaction, Holding

LEMMA InsertRows ==
  ASSUME TypeOK, NEW c \in Call, NEW i \in Report, SubmitInsert(c, i)
  PROVE  /\ pc[c] = "insert" /\ rep[i].life = "free"
         /\ \A j \in Report : j # i => rep'[j] = rep[j]
         /\ rep'[i].life = "pending" /\ rep'[i].by = loc[c].user
BY DEF TypeOK, SubmitInsert

LEMMA FailRows ==
  ASSUME TypeOK, NEW c \in Call, CallFails(c)
  PROVE  \A j \in Report :
           \/ rep'[j] = rep[j]
           \/ rep[j].life = "pending" /\ pc[c] \in Holding /\ loc[c].report = j /\ rep'[j] = NoRow
BY DEF TypeOK, CallFails, Rollback, InTransaction, Holding

\* Time and the purge touch committed rows only, the purge none that is held.
LEMMA ClockRows ==
  ASSUME TypeOK, NEW n \in Report, TimePasses(n) \/ PurgeExpiredReports(n)
  PROVE  /\ pc' = pc /\ loc' = loc /\ mod' = mod /\ past' = past /\ overlap' = overlap
         /\ \A j \in Report :
              \/ rep'[j] = rep[j]
              \/ rep'[j] = [rep[j] EXCEPT !.recent = FALSE] /\ Stored(j)
              \/ rep'[j].life = "purged" /\ Stored(j) /\ \A d \in Call : pc[d] \in Holding => loc[d].report # j
<1>1. CASE TimePasses(n)
  BY <1>1 DEF TypeOK, TimePasses, callVars, historyVars
<1>2. CASE PurgeExpiredReports(n)
  BY <1>2 DEF TypeOK, PurgeExpiredReports, NoRow, Locked, InTransaction, Holding, callVars, historyVars
<1> QED
  BY <1>1, <1>2

\* What the steps that write no report do to the position and the locals of c.
LEMMA PlainMoves ==
  ASSUME TypeOK, NEW c \in Call, RefInv(c), PlainStep(c)
  PROVE  /\ \A d \in Call : d # c => pc'[d] = pc[d] /\ loc'[d] = loc[d]
         /\ \/ /\ pc'[c] = "find" /\ loc'[c].user \in Reporter /\ mod # "REMOVED"
            \/ /\ pc[c] = "find" /\ pc'[c] = "insert" /\ loc'[c] = loc[c]
            \/ /\ pc[c] = "find" /\ pc'[c] = "update" /\ loc'[c].user = loc[c].user
               /\ loc'[c].report \in Report /\ rep[loc'[c].report].life = "open"
            \/ /\ pc[c] = "update" /\ loc'[c] = loc[c]
               /\ pc'[c] = IF AutoRule(loc[c].grade, {}) THEN "moderate" ELSE "commit"
               /\ Stored(loc[c].report) /\ ~Locked(loc[c].report)
            \/ /\ pc[c] = "moderate" /\ pc'[c] = "quarantine" /\ loc'[c] = loc[c]
            \/ /\ pc[c] = "moderate" /\ pc'[c] = "stamp" /\ loc'[c] = loc[c] /\ mod = "QUARANTINED"
            \/ /\ pc[c] = "idle" /\ pc'[c] = "resolve"
               /\ loc'[c].report \in Report /\ rep[loc'[c].report].life = "open"
            \/ /\ pc'[c] \in {"like", "unlike"} /\ loc'[c].user \in Liker
            \/ /\ pc'[c] \in {"idle", "admin", "metadata"} \cup Invalidation
<1> USE DEF TypeOK, CallType, Local, NoLocal
<1>1. ASSUME NEW u \in Reporter, NEW g \in Grade, SubmitBegin(c, u, g)
      PROVE  /\ \A d \in Call : d # c => pc'[d] = pc[d] /\ loc'[d] = loc[d]
             /\ pc'[c] = "find" /\ loc'[c].user \in Reporter /\ mod # "REMOVED"
  BY <1>1 DEF SubmitBegin
<1>2. CASE SubmitFind(c)
  <2>1. \A d \in Call : d # c => pc'[d] = pc[d] /\ loc'[d] = loc[d]
    BY <1>2 DEF SubmitFind
  <2> QED
    BY <1>2, <2>1 DEF SubmitFind, OpenBy
<1>3. CASE SubmitUpdate(c)
  BY <1>3 DEF SubmitUpdate
<1>4. CASE AutoRead(c)
  BY <1>4 DEF AutoRead
<1>5. ASSUME NEW i \in Report, NEW t \in Resolution, ResolveRead(c, i, t)
      PROVE  /\ \A d \in Call : d # c => pc'[d] = pc[d] /\ loc'[d] = loc[d]
             /\ pc[c] = "idle" /\ pc'[c] = "resolve"
             /\ loc'[c].report \in Report /\ rep[loc'[c].report].life = "open"
  BY <1>5 DEF ResolveRead
<1>6. ASSUME NEW u \in Liker, NEW p \in {"like", "unlike"}, LikeBegin(c, u, p)
      PROVE  /\ \A d \in Call : d # c => pc'[d] = pc[d] /\ loc'[d] = loc[d]
             /\ pc'[c] \in {"like", "unlike"} /\ loc'[c].user \in Liker
  BY <1>6 DEF LikeBegin
<1>7. ASSUME \/ (\E a \in Action : ModerateRead(c, a)) \/ DeleteVideo(c) \/ BulkDelete(c)
             \/ (\E m \in Meta : UpdateRead(c, m)) \/ UpdateWrite(c) \/ Invalidate(c)
      PROVE  /\ \A d \in Call : d # c => pc'[d] = pc[d] /\ loc'[d] = loc[d]
             /\ pc'[c] \in {"idle", "admin", "metadata"} \cup Invalidation
  BY <1>7 DEF ModerateRead, DeleteVideo, BulkDelete, UpdateRead, UpdateWrite, Invalidate, Leave, Invalidation
<1> HIDE DEF TypeOK, CallType, Local, NoLocal
<1> QED
  BY <1>1, <1>2, <1>3, <1>4, <1>5, <1>6, <1>7 DEF PlainStep

\* The steps that write move c on, without its locals or, after an INSERT, with
\* the new report.
LEMMA WriteMoves ==
  ASSUME TypeOK, NEW c \in Call, WriteStep(c)
  PROVE  /\ \A d \in Call : d # c => pc'[d] = pc[d] /\ loc'[d] = loc[d]
         /\ \/ pc'[c] \in {"idle"} \cup Invalidation
            \/ \E i \in Report : SubmitInsert(c, i) /\ loc'[c].report = i /\ loc'[c].user = loc[c].user
                 /\ loc'[c].grade = loc[c].grade
                 /\ pc'[c] = IF AutoRule(loc[c].grade, {loc[c].user}) THEN "moderate" ELSE "commit"
<1> USE DEF TypeOK, CallType, Local
<1>1. ASSUME NEW i \in Report, SubmitInsert(c, i)
      PROVE  /\ \A d \in Call : d # c => pc'[d] = pc[d] /\ loc'[d] = loc[d]
             /\ loc'[c].report = i /\ loc'[c].user = loc[c].user /\ loc'[c].grade = loc[c].grade
             /\ pc'[c] = IF AutoRule(loc[c].grade, {loc[c].user}) THEN "moderate" ELSE "commit"
  BY <1>1 DEF SubmitInsert
<1>2. ASSUME \/ SubmitCommit(c) \/ AutoQuarantine(c) \/ ModerateWrite(c) \/ ResolveWrite(c)
             \/ SetLike(c) \/ UnsetLike(c) \/ CallFails(c)
      PROVE  /\ \A d \in Call : d # c => pc'[d] = pc[d] /\ loc'[d] = loc[d]
             /\ pc'[c] \in {"idle"} \cup Invalidation
  BY <1>2 DEF SubmitCommit, AutoQuarantine, ModerateWrite, ResolveWrite, SetLike, UnsetLike, CallFails, Leave,
     Invalidation
<1> HIDE DEF TypeOK, CallType, Local
<1> QED
  BY <1>1, <1>2 DEF WriteStep

\* What others do to the report a call refers to: one it only read may be resolved
\* or purged, one it holds is its own.
LEMMA OthersRows ==
  ASSUME TypeOK, \A d \in Call : RefInv(d), NEW c \in Call, pc[c] \in Referring,
         \/ \E d \in Call : d # c /\ (PlainStep(d) \/ WriteStep(d))
         \/ UNCHANGED vars \/ PageStep
         \/ \E u \in Liker : AccountRemoved(u)
         \/ \E i \in Report : TimePasses(i) \/ PurgeExpiredReports(i)
  PROVE  /\ rep'[loc[c].report].life # "free"
         /\ pc[c] \in {"update", "resolve"} => rep'[loc[c].report].life # "pending"
         /\ pc[c] \in Holding => /\ rep'[loc[c].report].life = rep[loc[c].report].life
                                 /\ rep'[loc[c].report].by = rep[loc[c].report].by
<1> DEFINE i == loc[c].report
<1>0. /\ i \in Report /\ rep[i] \in Row /\ rep[i].life # "free"
      /\ pc[c] \in {"update", "resolve"} => rep[i].life # "pending"
      /\ pc[c] \in Holding => rep[i].life # "purged"
      /\ pc[c] \in Holding => \A d \in Call : d # c /\ pc[d] \in Holding => loc[d].report # i
      /\ pc[c] \in {"update", "resolve"} \/ pc[c] \in Holding
      /\ ~(pc[c] \in {"update", "resolve"} /\ pc[c] \in Holding)
  BY DEF RefInv, TypeOK, Referring, Holding
<1>1. CASE rep' = rep
  BY <1>0, <1>1
<1>2. ASSUME NEW d \in Call, d # c, NEW j \in Report, SubmitInsert(d, j)
      PROVE  rep'[i] = rep[i]
  BY <1>0, <1>2, InsertRows
<1>3. ASSUME NEW d \in Call, d # c, SubmitCommit(d) \/ AutoQuarantine(d)
      PROVE  /\ rep'[i] = rep[i] \/ (rep'[i].life = rep[i].life /\ rep'[i].by = rep[i].by)
  <2>1. CASE loc[d].report # i
    BY <1>0, <1>3, <2>1, CommitRows
  <2>2. CASE loc[d].report = i
    <3>1. pc[d] \in Holding /\ rep'[i] = Written(d, i)
      BY <1>3, <2>2, CommitRows
    <3>2. rep[i].life # "pending"
      BY <1>0, <1>3, <2>2, <3>1
    <3> QED
      BY <1>0, <1>3, <3>1, <3>2, WrittenFacts
  <2> QED
    BY <2>1, <2>2
<1>4. ASSUME NEW d \in Call, d # c, ResolveWrite(d)
      PROVE  rep'[i] = rep[i] \/ (pc[c] \notin Holding /\ rep'[i].life = "closed")
  BY <1>0, <1>4, ResolveRows
<1>5. ASSUME NEW d \in Call, d # c, CallFails(d) PROVE rep'[i] = rep[i]
  BY <1>0, <1>5, FailRows
<1>6. ASSUME NEW d \in Call, PlainStep(d) \/ ModerateWrite(d) \/ SetLike(d) \/ UnsetLike(d) PROVE rep' = rep
  BY <1>6, PlainFrame DEF ModerateWrite, SetLike, UnsetLike
<1>7. ASSUME NEW n \in Report, TimePasses(n) \/ PurgeExpiredReports(n)
      PROVE  \/ rep'[i] = rep[i] \/ (rep'[i].life = rep[i].life /\ rep'[i].by = rep[i].by)
             \/ pc[c] \notin Holding /\ rep'[i].life = "purged"
  <2>1. \/ rep'[i] = rep[i] \/ rep'[i] = [rep[i] EXCEPT !.recent = FALSE]
        \/ rep'[i].life = "purged" /\ \A d \in Call : pc[d] \in Holding => loc[d].report # i
    BY <1>0, <1>7, ClockRows
  <2> QED
    BY <1>0, <2>1 DEF Row
<1>8. CASE UNCHANGED vars \/ PageStep \/ \E u \in Liker : AccountRemoved(u)
  BY <1>1, <1>8, PageStepFrame DEF vars, AccountRemoved
<1> HIDE DEF i
<1>9. \/ rep'[i] = rep[i] \/ (rep'[i].life = rep[i].life /\ rep'[i].by = rep[i].by)
      \/ pc[c] \notin Holding /\ rep'[i].life \in {"closed", "purged"}
  BY <1>2, <1>3, <1>4, <1>5, <1>6, <1>7, <1>8, PageStepFrame DEF WriteStep, vars, AccountRemoved
<1> QED
  BY <1>0, <1>9 DEF i

LEMMA RefNext ==
  ASSUME TypeOK, \A d \in Call : RefInv(d), NEW c \in Call, [Next]_vars
  PROVE  RefInv(c)'
<1> USE VisibilityAssumption
<1>1. ASSUME pc'[c] = pc[c], loc'[c] = loc[c],
             \/ \E d \in Call : d # c /\ (PlainStep(d) \/ WriteStep(d))
             \/ UNCHANGED vars \/ PageStep
             \/ \E u \in Liker : AccountRemoved(u)
             \/ \E i \in Report : TimePasses(i) \/ PurgeExpiredReports(i),
             pc[c] \in Holding => \A d \in Call : pc'[d] \in Holding /\ loc'[d].report = loc[c].report => d = c
      PROVE  RefInv(c)'
  <2>1. pc[c] \in Referring =>
         /\ rep'[loc[c].report].life # "free"
         /\ pc[c] \in {"update", "resolve"} => rep'[loc[c].report].life # "pending"
         /\ pc[c] \in Holding => /\ rep'[loc[c].report].life = rep[loc[c].report].life
                                 /\ rep'[loc[c].report].by = rep[loc[c].report].by
    BY <1>1, OthersRows
  <2>2. RefInv(c)
    OBVIOUS
  <2>3. pc[c] \in {"update", "resolve"} \cup Holding => pc[c] \in Referring
    BY DEF Referring
  <2> QED
    BY <1>1, <2>1, <2>2, <2>3 DEF RefInv
<1>2. CASE \/ UNCHANGED vars \/ PageStep
           \/ \E u \in Liker : AccountRemoved(u)
           \/ \E i \in Report : TimePasses(i) \/ PurgeExpiredReports(i)
  <2>1. pc' = pc /\ loc' = loc
    BY <1>2, PageStepFrame, ClockRows DEF vars, AccountRemoved, callVars
  <2>2. pc[c] \in Holding => \A d \in Call : pc'[d] \in Holding /\ loc'[d].report = loc[c].report => d = c
    BY <2>1 DEF RefInv
  <2> QED
    BY <1>1, <1>2, <2>1, <2>2
<1>3. ASSUME NEW d \in Call, d # c, PlainStep(d) PROVE RefInv(c)'
  <2>1. \A e \in Call : e # d => pc'[e] = pc[e] /\ loc'[e] = loc[e]
    BY <1>3, PlainMoves
  <2>2. pc'[d] \in Holding => loc'[d] = loc[d] /\ (pc[d] \in Holding \/ ~Locked(loc[d].report))
    BY <1>3, PlainMoves DEF Holding, Invalidation
  <2>3. pc[c] \in Holding => \A e \in Call : pc'[e] \in Holding /\ loc'[e].report = loc[c].report => e = c
    BY <1>3, <2>1, <2>2 DEF RefInv, Locked, InTransaction, Holding
  <2> QED
    BY <1>1, <1>3, <2>1, <2>3
<1>4. ASSUME NEW d \in Call, d # c, WriteStep(d) PROVE RefInv(c)'
  <2>1. \A e \in Call : e # d => pc'[e] = pc[e] /\ loc'[e] = loc[e]
    BY <1>4, WriteMoves
  <2>2. pc'[d] \in Holding => \E i \in Report : rep[i].life = "free" /\ loc'[d].report = i
    <3>1. \/ pc'[d] \in {"idle"} \cup Invalidation
          \/ \E i \in Report : SubmitInsert(d, i) /\ loc'[d].report = i
      BY <1>4, WriteMoves
    <3>2. pc'[d] \in Holding => pc'[d] \notin {"idle"} \cup Invalidation
      BY DEF Holding, Invalidation
    <3>3. \A i \in Report : SubmitInsert(d, i) => rep[i].life = "free"
      BY InsertRows
    <3> QED
      BY <3>1, <3>2, <3>3
  <2>3. pc[c] \in Holding => rep[loc[c].report].life # "free"
    BY DEF RefInv, Referring
  <2>4. pc[c] \in Holding => \A e \in Call : pc'[e] \in Holding /\ loc'[e].report = loc[c].report => e = c
    BY <1>4, <2>1, <2>2, <2>3 DEF RefInv
  <2> QED
    BY <1>1, <1>4, <2>1, <2>4
<1>5. CASE PlainStep(c)
  <2>1. rep' = rep
    BY <1>5, PlainFrame
  <2>2. /\ \A d \in Call : d # c => pc'[d] = pc[d] /\ loc'[d] = loc[d]
        /\ \/ /\ pc'[c] = "find" /\ loc'[c].user \in Reporter
           \/ /\ pc[c] = "find" /\ pc'[c] = "insert" /\ loc'[c] = loc[c]
           \/ /\ pc[c] = "find" /\ pc'[c] = "update" /\ loc'[c].user = loc[c].user
              /\ loc'[c].report \in Report /\ rep[loc'[c].report].life = "open"
           \/ /\ pc[c] = "update" /\ loc'[c] = loc[c]
              /\ pc'[c] = IF AutoRule(loc[c].grade, {}) THEN "moderate" ELSE "commit"
              /\ Stored(loc[c].report) /\ ~Locked(loc[c].report)
           \/ /\ pc[c] = "moderate" /\ pc'[c] \in {"quarantine", "stamp"} /\ loc'[c] = loc[c]
           \/ /\ pc'[c] = "resolve" /\ loc'[c].report \in Report /\ rep[loc'[c].report].life = "open"
           \/ /\ pc'[c] \in {"like", "unlike"} /\ loc'[c].user \in Liker
           \/ /\ pc'[c] \in {"idle", "admin", "metadata"} \cup Invalidation
    BY <1>5, PlainMoves
  <2>3. CASE pc[c] = "update" /\ pc'[c] \in Holding
    <3>1. /\ loc'[c] = loc[c] /\ Stored(loc[c].report) /\ ~Locked(loc[c].report)
          /\ pc'[c] = IF AutoRule(loc[c].grade, {}) THEN "moderate" ELSE "commit"
      BY <2>2, <2>3 DEF Holding, Invalidation
    <3>2. \A d \in Call : pc'[d] \in Holding /\ loc'[d].report = loc'[c].report => d = c
      BY <2>2, <3>1 DEF Locked, InTransaction, Holding
    <3>3. loc[c].user \in Reporter /\ loc[c].report \in Report
      BY <2>3 DEF RefInv, Filing, Referring
    <3>4. pc'[c] = "commit" => loc'[c].grade # "immediate"
      BY <3>1 DEF AutoRule
    <3> QED
      BY <2>1, <2>3, <3>1, <3>2, <3>3, <3>4 DEF RefInv, Holding, Stored
  <2>4. CASE pc[c] = "moderate" /\ pc'[c] \in {"quarantine", "stamp"}
    <3>1. loc'[c] = loc[c] /\ pc[c] \in Holding /\ pc[c] \in Filing /\ pc[c] \in Referring
      BY <2>2, <2>4 DEF Holding, Filing, Referring, Invalidation
    <3>2. \A d \in Call : pc'[d] \in Holding /\ loc'[d].report = loc'[c].report => d = c
      BY <2>2, <3>1 DEF RefInv
    <3> QED
      BY <2>1, <2>4, <3>1, <3>2 DEF RefInv
  <2>5. CASE pc'[c] \notin Holding
    BY <2>1, <2>2, <2>5 DEF RefInv, Holding, Filing, Referring, Invalidation
  <2> QED
    BY <2>2, <2>3, <2>4, <2>5 DEF Holding, Invalidation
<1>6. CASE WriteStep(c)
  <2>1. CASE pc'[c] \in {"idle"} \cup Invalidation
    BY <2>1 DEF RefInv, Holding, Filing, Referring, Invalidation
  <2>2. ASSUME NEW i \in Report, SubmitInsert(c, i), loc'[c].report = i, loc'[c].user = loc[c].user,
               loc'[c].grade = loc[c].grade,
               pc'[c] = IF AutoRule(loc[c].grade, {loc[c].user}) THEN "moderate" ELSE "commit"
        PROVE  RefInv(c)'
    <3>1. pc[c] = "insert" /\ rep[i].life = "free" /\ rep'[i].life = "pending" /\ rep'[i].by = loc[c].user
      BY <2>2, InsertRows
    <3>2. loc[c].user \in Reporter
      BY <3>1 DEF RefInv, Filing
    <3>3. \A d \in Call : pc'[d] \in Holding /\ loc'[d].report = i => d = c
      <4>1. \A d \in Call : d # c => pc'[d] = pc[d] /\ loc'[d] = loc[d]
        BY <1>6, WriteMoves
      <4>2. \A d \in Call : pc[d] \in Holding => loc[d].report # i
        BY <3>1 DEF RefInv, Referring
      <4> QED
        BY <4>1, <4>2
    <3>4. pc'[c] = "commit" => loc'[c].grade # "immediate"
      BY <2>2 DEF AutoRule
    <3> QED
      BY <2>2, <3>1, <3>2, <3>3, <3>4 DEF RefInv, Holding
  <2> QED
    BY <1>6, <2>1, <2>2, WriteMoves
<1> QED
  BY <1>2, <1>3, <1>4, <1>5, <1>6, StepKinds

-----------------------------------------------------------------------------
(* What is decided behind a call's back. *)

\* Only resolve_abuse_report closes a report.
LEMMA ClosedRows ==
  ASSUME TypeOK, \A d \in Call : RefInv(d), [Next]_vars, NEW i \in Report,
         rep'[i].life = "closed", rep[i].life # "closed"
  PROVE  \E d \in Call : ResolveWrite(d) /\ loc[d].report = i
<1>0. rep[i] \in Row
  BY DEF TypeOK
<1>1. rep'[i] # rep[i]
  OBVIOUS
<1>2. ASSUME NEW d \in Call, NEW j \in Report, SubmitInsert(d, j) PROVE FALSE
  BY <1>1, <1>2, InsertRows
<1>3. ASSUME NEW d \in Call, SubmitCommit(d) \/ AutoQuarantine(d) PROVE FALSE
  <2>1. loc[d].report = i /\ rep'[i] = Written(d, i)
    BY <1>1, <1>3, CommitRows
  <2> QED
    BY <1>3, <2>1, WrittenFacts
<1>4. ASSUME NEW d \in Call, ResolveWrite(d) PROVE loc[d].report = i
  BY <1>1, <1>4, ResolveRows
<1>5. ASSUME NEW d \in Call, CallFails(d) PROVE FALSE
  BY <1>1, <1>5, FailRows DEF NoRow
<1>6. ASSUME NEW n \in Report, TimePasses(n) \/ PurgeExpiredReports(n) PROVE FALSE
  <2>1. rep'[i] = [rep[i] EXCEPT !.recent = FALSE] \/ rep'[i].life = "purged"
    BY <1>1, <1>6, ClockRows
  <2> QED
    BY <1>0, <2>1 DEF Row
<1>7. ASSUME NEW d \in Call, PlainStep(d) \/ ModerateWrite(d) \/ SetLike(d) \/ UnsetLike(d) PROVE FALSE
  BY <1>1, <1>7, PlainFrame DEF ModerateWrite, SetLike, UnsetLike
<1>8. CASE UNCHANGED vars \/ PageStep \/ \E u \in Liker : AccountRemoved(u)
  BY <1>1, <1>8, PageStepFrame DEF vars, AccountRemoved
<1> QED
  BY <1>2, <1>3, <1>4, <1>5, <1>6, <1>7, <1>8, StepKinds DEF WriteStep

\* The record of a call grows as long as the call is under way.
LEMMA RecordGrows ==
  ASSUME TypeOK, NEW c \in Call, [Next]_vars,
         \A d \in Call : WriteStep(d) => d # c \/ \E i \in Report : SubmitInsert(d, i)
  PROVE  overlap[c] \subseteq overlap'[c]
<1>1. ASSUME NEW d \in Call, SubmitCommit(d) \/ AutoQuarantine(d) \/ CallFails(d)
      PROVE  overlap[c] \subseteq overlap'[c]
  <2>1. d # c
    <3>1. pc'[d] \in {"idle", "invalidate"} /\ WriteStep(d)
      BY <1>1 DEF WriteStep, SubmitCommit, AutoQuarantine, CallFails, Leave, TypeOK, CallType
    <3>2. \A i \in Report : SubmitInsert(d, i) => pc'[d] \in {"moderate", "commit"}
      BY DEF SubmitInsert, TypeOK, CallType
    <3> QED
      BY <3>1, <3>2
  <2> QED
    BY <1>1, <2>1 DEF SubmitCommit, AutoQuarantine, CallFails, TypeOK, HistoryType
<1>2. ASSUME NEW d \in Call, ModerateWrite(d) PROVE overlap[c] \subseteq overlap'[c]
  BY <1>2 DEF ModerateWrite
<1>3. ASSUME NEW d \in Call, ResolveWrite(d) PROVE overlap[c] \subseteq overlap'[c]
  <2>1. d # c
    BY <1>3 DEF WriteStep, ResolveWrite, SubmitInsert
  <2> QED
    BY <1>3, <2>1 DEF ResolveWrite
<1>4. ASSUME NEW d \in Call, (\E i \in Report : SubmitInsert(d, i)) \/ SetLike(d) \/ UnsetLike(d) \/ PlainStep(d)
      PROVE  overlap' = overlap
  BY <1>4, PlainFrame DEF SubmitInsert, SetLike, UnsetLike, historyVars
<1>5. CASE \/ UNCHANGED vars \/ PageStep \/ (\E u \in Liker : AccountRemoved(u))
           \/ \E i \in Report : TimePasses(i) \/ PurgeExpiredReports(i)
  BY <1>5, PageStepFrame, ClockRows DEF vars, AccountRemoved, historyVars
<1> QED
  BY <1>1, <1>2, <1>3, <1>4, <1>5, StepKinds DEF WriteStep

\* Only an administrator removes a video.
LEMMA RemovedBy ==
  ASSUME TypeOK, [Next]_vars, mod' = "REMOVED", mod # "REMOVED"
  PROVE  \E d \in Call : ModerateWrite(d) /\ loc[d].act = "remove"
<1>1. ASSUME NEW d \in Call, ModerateWrite(d) PROVE loc[d].act = "remove"
  BY <1>1 DEF ModerateWrite, Target, TypeOK, CallType, Local, Action
<1>2. ASSUME NEW d \in Call,
             \/ PlainStep(d) \/ (\E i \in Report : SubmitInsert(d, i)) \/ SubmitCommit(d) \/ AutoQuarantine(d)
             \/ ResolveWrite(d) \/ SetLike(d) \/ UnsetLike(d) \/ CallFails(d)
      PROVE  FALSE
  BY <1>2, PlainFrame DEF SubmitInsert, SubmitCommit, AutoQuarantine, ResolveWrite, SetLike, UnsetLike, CallFails
<1>3. CASE \/ UNCHANGED vars \/ PageStep \/ (\E u \in Liker : AccountRemoved(u))
           \/ \E i \in Report : TimePasses(i) \/ PurgeExpiredReports(i)
  BY <1>3, PageStepFrame, ClockRows DEF vars, AccountRemoved
<1> QED
  BY <1>1, <1>2, <1>3, StepKinds DEF WriteStep

LEMMA OverlapNext ==
  ASSUME TypeOK, \A d \in Call : RefInv(d), NEW c \in Call, OverlapInv(c), [Next]_vars
  PROVE  OverlapInv(c)'
<1> USE VisibilityAssumption
<1>1. CASE WriteStep(c) /\ ~ \E i \in Report : SubmitInsert(c, i)
  <2>1. pc'[c] \in {"idle"} \cup Invalidation
    BY <1>1, WriteMoves
  <2> QED
    BY <2>1 DEF OverlapInv, Filing, Referring, Holding, Invalidation
<1>2. CASE ~WriteStep(c) \/ \E i \in Report : SubmitInsert(c, i)
  <2>1. overlap[c] \subseteq overlap'[c]
    BY <1>2, RecordGrows
  <2>2. ASSUME mod' = "REMOVED", pc'[c] \in Filing PROVE "removed" \in overlap'[c]
    <3>1. CASE mod = "REMOVED"
      <4>1. pc[c] \in Filing
        <5>1. CASE PlainStep(c)
          BY <2>2, <3>1, <5>1, PlainMoves DEF Filing, Holding, Invalidation
        <5>2. ASSUME NEW i \in Report, SubmitInsert(c, i) PROVE pc[c] \in Filing
          BY <5>2, InsertRows DEF Filing
        <5>3. CASE pc'[c] = pc[c]
          BY <2>2, <5>3
        <5>4. ~PlainStep(c) /\ ~WriteStep(c) => pc'[c] = pc[c]
          BY StepKinds, PlainMoves, WriteMoves, PageStepFrame, ClockRows DEF vars, AccountRemoved, callVars
        <5> QED
          BY <1>2, <5>1, <5>2, <5>3, <5>4
      <4> QED
        BY <2>1, <3>1, <4>1 DEF OverlapInv
    <3>2. CASE mod # "REMOVED"
      <4>1. PICK d \in Call : ModerateWrite(d) /\ loc[d].act = "remove"
        BY <2>2, <3>2, RemovedBy
      <4>2. pc'[c] = pc[c]
        BY <2>2, <4>1 DEF ModerateWrite, Leave, TypeOK, CallType, Filing, Holding
      <4>3. Submitting(c)
        BY <2>2, <4>2 DEF Submitting, InTransaction, Filing, Holding
      <4> QED
        BY <4>1, <4>3 DEF ModerateWrite
    <3> QED
      BY <3>1, <3>2
  <2>3. ASSUME pc'[c] \in Referring, rep'[loc'[c].report].life = "closed" PROVE "closed" \in overlap'[c]
    <3>1. CASE pc[c] \in Referring /\ loc'[c].report = loc[c].report
      <4> DEFINE i == loc[c].report
      <4>1. i \in Report
        BY <3>1 DEF RefInv
      <4>2. CASE rep[i].life = "closed"
        BY <2>1, <3>1, <4>2 DEF OverlapInv
      <4>3. CASE rep[i].life # "closed"
        <5>1. PICK d \in Call : ResolveWrite(d) /\ loc[d].report = i
          BY <2>3, <3>1, <4>1, <4>3, ClosedRows
        <5>2. d # c
          BY <1>2, <5>1 DEF WriteStep, ResolveWrite, SubmitInsert
        <5>3. pc[c] \in {"update", "resolve"}
          BY <3>1, <5>1, ResolveRows DEF Referring
        <5> QED
          BY <3>1, <5>1, <5>2, <5>3 DEF ResolveWrite
      <4> QED
        BY <4>2, <4>3
    <3>2. CASE PlainStep(c) /\ ~(pc[c] \in Referring /\ loc'[c].report = loc[c].report)
      <4>1. rep' = rep
        BY <3>2, PlainFrame
      <4>2. \/ pc'[c] \in {"find", "insert", "like", "unlike", "idle", "admin", "metadata"} \cup Invalidation
            \/ rep[loc'[c].report].life = "open"
            \/ pc[c] \in {"update", "moderate"} /\ loc'[c] = loc[c]
        BY <3>2, PlainMoves
      <4> QED
        BY <2>3, <3>2, <4>1, <4>2 DEF Referring, Holding, Invalidation
    <3>3. ASSUME NEW i \in Report, SubmitInsert(c, i) PROVE rep'[loc'[c].report].life = "pending"
      BY <3>3, InsertRows DEF SubmitInsert, TypeOK, CallType, Local
    <3>4. ~PlainStep(c) /\ ~WriteStep(c) => pc'[c] = pc[c] /\ loc'[c] = loc[c]
      BY StepKinds, PlainMoves, WriteMoves, PageStepFrame, ClockRows DEF vars, AccountRemoved, callVars
    <3> QED
      BY <1>2, <2>3, <3>1, <3>2, <3>3, <3>4
  <2> QED
    BY <2>2, <2>3 DEF OverlapInv
<1> QED
  BY <1>1, <1>2

-----------------------------------------------------------------------------
(* The count of the reporters. *)

\* The reporters that are counted are finitely many.
LEMMA CountFinite ==
  ASSUME TypeOK
  PROVE  /\ Severe \subseteq Counted /\ IsFiniteSet(Counted) /\ IsFiniteSet(Severe)
         /\ \A c \in Call : IsFiniteSet(Counted \cup Own(c))
<1>1. /\ Counted \subseteq Reporter \cup {NoUser} /\ Severe \subseteq Counted
      /\ \A c \in Call : Own(c) \subseteq Reporter
  BY DEF Counted, Severe, Own, TypeOK, Row
<1>2. IsFiniteSet(Reporter \cup {NoUser})
  BY VisibilityAssumption, FS_AddElement
<1>3. IsFiniteSet(Counted) /\ IsFiniteSet(Severe)
  BY <1>1, <1>2, FS_Subset
<1>4. ASSUME NEW c \in Call PROVE IsFiniteSet(Counted \cup Own(c))
  <2>1. Counted \cup Own(c) \subseteq Reporter \cup {NoUser}
    BY <1>1
  <2> QED
    BY <1>2, <2>1, FS_Subset
<1> QED
  BY <1>1, <1>3, <1>4

\* A count below the threshold stays there while nobody is added.
LEMMA CountShrinks ==
  ASSUME NEW S, NEW T, T \subseteq S, IsFiniteSet(S), Cardinality(S) < Threshold
  PROVE  Cardinality(T) < Threshold
BY VisibilityAssumption, FS_Subset, FS_CardinalityType

\* A row of the count comes from a row of the count, and so does a severe one,
\* unless some transaction commits.
LEMMA CountSteps ==
  ASSUME TypeOK, \A d \in Call : RefInv(d), [Next]_vars, ~ \E d \in Call : SubmitCommit(d) \/ AutoQuarantine(d)
  PROVE  Counted' \subseteq Counted /\ Severe' \subseteq Severe
<1>1. ASSUME NEW j \in Report, rep'[j].life = "open"
      PROVE  rep'[j] = rep[j] \/ rep'[j] = [rep[j] EXCEPT !.recent = FALSE]
  <2>1. ASSUME NEW d \in Call, NEW i \in Report, SubmitInsert(d, i) PROVE rep'[j] = rep[j]
    BY <1>1, <2>1, InsertRows
  <2>2. ASSUME NEW d \in Call, ResolveWrite(d) PROVE rep'[j] = rep[j]
    BY <1>1, <2>2, ResolveRows
  <2>3. ASSUME NEW d \in Call, CallFails(d) PROVE rep'[j] = rep[j]
    BY <1>1, <2>3, FailRows DEF NoRow
  <2>4. ASSUME NEW n \in Report, TimePasses(n) \/ PurgeExpiredReports(n)
        PROVE  rep'[j] = rep[j] \/ rep'[j] = [rep[j] EXCEPT !.recent = FALSE]
    BY <1>1, <2>4, ClockRows
  <2>5. ASSUME NEW d \in Call, PlainStep(d) \/ ModerateWrite(d) \/ SetLike(d) \/ UnsetLike(d) PROVE rep' = rep
    BY <2>5, PlainFrame DEF ModerateWrite, SetLike, UnsetLike
  <2>6. CASE UNCHANGED vars \/ PageStep \/ \E u \in Liker : AccountRemoved(u)
    BY <2>6, PageStepFrame DEF vars, AccountRemoved
  <2> QED
    BY <2>1, <2>2, <2>3, <2>4, <2>5, <2>6, StepKinds DEF WriteStep
<1>2. ASSUME NEW j \in Report, rep'[j].life = "open", rep'[j].recent PROVE rep'[j] = rep[j]
  <2>1. rep[j] \in Row
    BY DEF TypeOK
  <2>2. [rep[j] EXCEPT !.recent = FALSE].recent = FALSE
    BY <2>1 DEF Row
  <2> QED
    BY <1>1, <1>2, <2>2
<1> QED
  BY <1>2 DEF Counted, Severe

\* The commit of c adds at most its own reporter, and to the severe ones only if
\* its grade is severe.
LEMMA CommitCounts ==
  ASSUME TypeOK, NEW c \in Call, RefInv(c), SubmitCommit(c)
  PROVE  /\ Severe' \subseteq Counted \cup Own(c)
         /\ loc[c].grade = "mild" => Severe' \subseteq Severe
<1> DEFINE i == loc[c].report
<1>1. /\ i \in Report /\ rep[i] \in Row /\ rep'[i] = Written(c, i)
      /\ \A j \in Report : j # i => rep'[j] = rep[j]
      /\ pc[c] \in Holding /\ loc[c].user \in Reporter
  <2>1. pc[c] \in Holding /\ pc[c] \in Filing
    BY DEF SubmitCommit, Holding, Filing
  <2> QED
    BY <2>1, CommitRows DEF TypeOK, RefInv
<1>2. /\ rep'[i].life = (IF rep[i].life = "pending" THEN "open" ELSE rep[i].life)
      /\ rep'[i].by = rep[i].by /\ rep'[i].recent = rep[i].recent
      /\ rep'[i].severe = (loc[c].grade # "mild")
  BY <1>1, WrittenFacts
<1>3. rep[i].life = "pending" => rep[i].by \in Own(c)
  BY <1>1 DEF RefInv, Own
<1> HIDE DEF i
<1>4. ASSUME NEW j \in Report, rep'[j].life = "open", rep'[j].recent, rep'[j].severe
      PROVE  /\ rep'[j].by \in Counted \cup Own(c)
             /\ loc[c].grade = "mild" => rep'[j].by \in Severe
  <2>1. CASE j = i
    BY <1>1, <1>2, <1>3, <1>4, <2>1 DEF Counted
  <2>2. CASE j # i
    BY <1>1, <1>4, <2>2 DEF Counted, Severe
  <2> QED
    BY <2>1, <2>2
<1> QED
  BY <1>4 DEF Severe

\* A video goes up again by an administrator's hand only.
LEMMA UpAgain ==
  ASSUME TypeOK, [Next]_vars, mod' = "VISIBLE", past' = "none"
  PROVE  mod = "VISIBLE" /\ past = "none" /\ ~ \E d \in Call : ModerateWrite(d) \/ AutoQuarantine(d)
<1>1. ASSUME NEW d \in Call, ModerateWrite(d) \/ AutoQuarantine(d) PROVE FALSE
  BY <1>1 DEF ModerateWrite, AutoQuarantine
<1>2. ASSUME NEW d \in Call,
             \/ PlainStep(d) \/ (\E i \in Report : SubmitInsert(d, i)) \/ SubmitCommit(d)
             \/ ResolveWrite(d) \/ SetLike(d) \/ UnsetLike(d) \/ CallFails(d)
      PROVE  mod' = mod /\ past = "none"
  BY <1>2, PlainFrame DEF SubmitInsert, SubmitCommit, ResolveWrite, SetLike, UnsetLike, CallFails, historyVars
<1>3. CASE \/ UNCHANGED vars \/ PageStep \/ (\E u \in Liker : AccountRemoved(u))
           \/ \E i \in Report : TimePasses(i) \/ PurgeExpiredReports(i)
  BY <1>1, <1>3, PageStepFrame, ClockRows DEF vars, AccountRemoved, historyVars
<1> QED
  BY <1>1, <1>2, <1>3, StepKinds DEF WriteStep

LEMMA CountNext ==
  ASSUME TypeOK, \A d \in Call : RefInv(d), CountInv, [Next]_vars
  PROVE  CountInv'
<1> USE VisibilityAssumption
<1> SUFFICES ASSUME mod' = "VISIBLE", past' = "none"
             PROVE  /\ Cardinality(Severe') < Threshold
                    /\ \A c \in Call :
                         /\ pc'[c] # "stamp"
                         /\ pc'[c] = "commit" /\ loc'[c].grade = "severe" =>
                              Cardinality((Counted \cup Own(c))') < Threshold
  BY DEF CountInv
<1>1. mod = "VISIBLE" /\ past = "none" /\ ~ \E d \in Call : AutoQuarantine(d)
  BY UpAgain
<1>2. /\ Cardinality(Severe) < Threshold
      /\ \A c \in Call :
           /\ pc[c] # "stamp"
           /\ pc[c] = "commit" /\ loc[c].grade = "severe" => Cardinality(Counted \cup Own(c)) < Threshold
  BY <1>1 DEF CountInv
<1>3. ASSUME NEW d \in Call, SubmitCommit(d)
      PROVE  /\ Cardinality(Severe') < Threshold
             /\ \A c \in Call : pc'[c] \notin Holding
  <2>1. \A c \in Call : pc'[c] \notin Holding
    <3>1. \A c \in Call : c # d => pc[c] \notin Holding /\ pc'[c] = pc[c]
      BY <1>1, <1>3 DEF SubmitCommit, Racing, InTransaction, Holding, Leave, TypeOK, CallType
    <3>2. pc'[d] = "idle"
      BY <1>3 DEF SubmitCommit, Leave, TypeOK, CallType
    <3> QED
      BY <3>1, <3>2 DEF Holding
  <2>2. pc[d] = "commit" /\ loc[d].grade \in {"mild", "severe"}
    BY <1>2, <1>3 DEF SubmitCommit, RefInv, TypeOK, CallType, Local, Grade
  <2>3. CASE loc[d].grade = "mild"
    <3>1. Severe' \subseteq Severe /\ IsFiniteSet(Severe)
      BY <1>3, <2>3, CommitCounts, CountFinite
    <3> QED
      BY <1>2, <2>1, <3>1, CountShrinks
  <2>4. CASE loc[d].grade = "severe"
    <3>1. Cardinality(Counted \cup Own(d)) < Threshold /\ IsFiniteSet(Counted \cup Own(d))
      BY <1>2, <2>2, <2>4, CountFinite
    <3>2. Severe' \subseteq Counted \cup Own(d)
      BY <1>3, CommitCounts
    <3> QED
      BY <2>1, <3>1, <3>2, CountShrinks
  <2> QED
    BY <2>1, <2>2, <2>3, <2>4
<1>4. CASE ~ \E d \in Call : SubmitCommit(d)
  <2>1. Counted' \subseteq Counted /\ Severe' \subseteq Severe
    BY <1>1, <1>4, CountSteps
  <2>3. Cardinality(Severe') < Threshold
    BY <1>2, <2>1, CountFinite, CountShrinks
  <2>4. ASSUME NEW c \in Call, ~PlainStep(c), ~WriteStep(c)
        PROVE  /\ pc'[c] = pc[c] /\ loc'[c] = loc[c]
               /\ pc[c] = "commit" => Own(c)' \subseteq Own(c)
    <3>1. pc'[c] = pc[c] /\ loc'[c] = loc[c]
      BY <2>4, StepKinds, PlainMoves, WriteMoves, PageStepFrame, ClockRows DEF vars, AccountRemoved, callVars
    <3>2. pc[c] = "commit" => rep'[loc[c].report].life = rep[loc[c].report].life
      <4>1. \/ \E d \in Call : d # c /\ (PlainStep(d) \/ WriteStep(d))
            \/ UNCHANGED vars \/ PageStep
            \/ \E u \in Liker : AccountRemoved(u)
            \/ \E i \in Report : TimePasses(i) \/ PurgeExpiredReports(i)
        BY <2>4, StepKinds
      <4> QED
        BY <4>1, OthersRows DEF Referring, Holding
    <3> QED
      BY <3>1, <3>2 DEF Own
  <2>5. ASSUME NEW c \in Call PROVE pc'[c] # "stamp"
    <3>1. CASE PlainStep(c)
      BY <1>1, <1>2, <3>1, PlainMoves DEF Invalidation
    <3>2. CASE WriteStep(c)
      BY <3>2, WriteMoves DEF Invalidation
    <3> QED
      BY <1>2, <2>4, <3>1, <3>2
  <2>6. ASSUME NEW c \in Call, pc'[c] = "commit", loc'[c].grade = "severe"
        PROVE  Cardinality((Counted \cup Own(c))') < Threshold
    <3>1. CASE ~PlainStep(c) /\ ~WriteStep(c)
      <4>1. (Counted \cup Own(c))' \subseteq Counted \cup Own(c)
        BY <2>1, <2>4, <2>6, <3>1
      <4>2. Cardinality(Counted \cup Own(c)) < Threshold /\ IsFiniteSet(Counted \cup Own(c))
        BY <1>2, <2>4, <2>6, <3>1, CountFinite
      <4> QED
        BY <4>1, <4>2, CountShrinks
    <3>2. CASE PlainStep(c)
      <4>1. /\ pc[c] = "update" /\ loc'[c] = loc[c] /\ ~AutoRule(loc[c].grade, {})
            /\ Stored(loc[c].report) /\ rep' = rep
        BY <2>6, <3>2, PlainMoves, PlainFrame DEF Invalidation
      <4>2. Own(c)' = {} /\ Counted' = Counted
        BY <4>1 DEF Own, Stored, Counted
      <4>3. ReporterCount({}) = Cardinality(Counted \cup {})
        BY DEF ReporterCount, Counted
      <4>4. Counted \cup {} = Counted /\ (Counted \cup Own(c))' = Counted
        BY <4>2
      <4>5. IsFiniteSet(Counted)
        BY CountFinite
      <4>6. Cardinality(Counted) < Threshold
        BY <2>6, <4>1, <4>3, <4>4, <4>5, FS_CardinalityType DEF AutoRule
      <4> QED
        BY <4>4, <4>6
    <3>3. CASE WriteStep(c)
      <4>1. PICK i \in Report : /\ SubmitInsert(c, i) /\ loc'[c].user = loc[c].user /\ loc'[c].grade = loc[c].grade
                                /\ ~AutoRule(loc[c].grade, {loc[c].user})
        BY <2>6, <3>3, WriteMoves DEF Invalidation
      <4> DEFINE u == loc[c].user
      <4>2. ReporterCount({u}) = Cardinality(Counted \cup {u})
        BY DEF ReporterCount, Counted
      <4>3. (Counted \cup Own(c))' \subseteq Counted \cup {u}
        BY <2>1, <4>1 DEF Own
      <4>4. IsFiniteSet(Counted)
        BY CountFinite
      <4>5. IsFiniteSet(Counted \cup {u})
        BY <4>4, FS_AddElement
      <4>6. Cardinality(Counted \cup {u}) < Threshold
        BY <2>6, <4>1, <4>2, <4>5, FS_CardinalityType DEF AutoRule
      <4> HIDE DEF u
      <4> QED
        BY <4>3, <4>5, <4>6, CountShrinks
    <3> QED
      BY <3>1, <3>2, <3>3
  <2> QED
    BY <2>3, <2>5, <2>6
<1> QED
  BY <1>3, <1>4 DEF Holding

-----------------------------------------------------------------------------
LEMMA InitInv == Init => Inv
<1> SUFFICES ASSUME Init PROVE Inv
  OBVIOUS
<1> USE VisibilityAssumption DEF Init
<1>1. NoRow \in Row /\ NoLocal \in Local /\ Unmarked \in Mark
  BY DEF NoRow, Row, NoLocal, Local, Unmarked, Mark, Grade, Action
<1>2. NotReading \in [surface : Surface, busy : BOOLEAN, found : SUBSET Meta]
  BY DEF NotReading, Surface
<1>3. VideoType
  BY <1>1 DEF VideoType, Moderation
<1>4. TypeOK
  BY <1>1, <1>2, <1>3 DEF TypeOK, LikeType, CallType, PageType, HistoryType, Step
<1>5. LikesCounted
  <2>1. {u \in Liker : like[u] \in {"liked", "orphaned"}} = {}
    OBVIOUS
  <2> QED
    BY <2>1, FS_EmptySet DEF LikesCounted
<1>6. CountInv
  <2>1. Severe = {}
    BY DEF Severe, NoRow
  <2> QED
    BY <2>1, FS_EmptySet DEF CountInv
<1>7. \A c \in Call : RefInv(c) /\ OverlapInv(c)
  BY DEF RefInv, OverlapInv, Filing, Referring, Holding
<1> QED
  BY <1>4, <1>5, <1>6, <1>7 DEF Inv

\* The inductive invariant: types and counts, which row each call refers to, what
\* is on its record, and that its count still holds.
THEOREM VisibilityInvariant == Spec => []Inv
<1>1. Inv /\ [Next]_vars => Inv'
  <2> SUFFICES ASSUME Inv, [Next]_vars PROVE Inv'
    OBVIOUS
  <2> USE DEF Inv
  <2>1. LikeType' /\ LikesCounted'
    BY LikesNext
  <2>2. TypeOK'
    BY <2>1, VideoNext, ReportNext, CallNext, PageNext, HistoryNext DEF TypeOK
  <2>3. CountInv'
    BY CountNext
  <2>4. \A c \in Call : RefInv(c)' /\ OverlapInv(c)'
    BY RefNext, OverlapNext
  <2> QED
    BY <2>1, <2>2, <2>3, <2>4
<1> QED
  BY <1>1, InitInv, PTL DEF Spec

\* Type correctness of the rows, the calls' local variables and the cached pages.
THEOREM TypeCorrect == Spec => []TypeOK
<1>1. Inv => TypeOK
  BY DEF Inv
<1> QED
  BY <1>1, VisibilityInvariant, PTL

\* like_count is right through repeated and overlapping PUT and DELETE of likes and
\* the deletion of accounts.
THEOREM LikesAreCounted == Spec => []LikesCounted
<1>1. Inv => LikesCounted
  BY DEF Inv
<1> QED
  BY <1>1, VisibilityInvariant, PTL

\* The threshold of submit_or_update_report holds, unless transactions overlapped.
THEOREM ThresholdHolds == Spec => []SevereAreCounted
<1>1. Inv => SevereAreCounted
  BY DEF Inv, CountInv, Severe, SevereAreCounted
<1> QED
  BY <1>1, VisibilityInvariant, PTL

\* What was decided stays decided: a removal yields to an administrator or to an
\* automatic quarantine it overtook, a closed report to a call that had read it open.
THEOREM DecisionsAreKept == Spec => DecisionsStay
<1> DEFINE
  Removed == mod = "REMOVED" /\ mod' # mod =>
               \E c \in Call : \/ pc[c] = "admin"
                               \/ pc[c] = "quarantine" /\ "removed" \in overlap[c]
  Closed == \A i \in Report :
              rep[i].life = "closed" /\ rep'[i].life = "closed"
                /\ [rep[i] EXCEPT !.recent = TRUE] # [rep'[i] EXCEPT !.recent = TRUE] =>
              \E c \in Call : loc[c].report = i /\ pc'[c] # pc[c] /\ "closed" \in overlap[c]
<1>1. ASSUME Inv, [Next]_vars PROVE Removed
  <2> SUFFICES ASSUME mod = "REMOVED", mod' # mod
               PROVE  \E c \in Call : \/ pc[c] = "admin"
                                      \/ pc[c] = "quarantine" /\ "removed" \in overlap[c]
    OBVIOUS
  <2> USE <1>1 DEF Inv
  <2>1. ASSUME NEW c \in Call, AutoQuarantine(c) PROVE pc[c] = "quarantine" /\ "removed" \in overlap[c]
    BY <2>1 DEF AutoQuarantine, OverlapInv, Filing, Holding
  <2>2. ASSUME NEW c \in Call, ModerateWrite(c) PROVE pc[c] = "admin"
    BY <2>2 DEF ModerateWrite
  <2>3. ASSUME NEW c \in Call,
               \/ PlainStep(c) \/ (\E i \in Report : SubmitInsert(c, i)) \/ SubmitCommit(c)
               \/ ResolveWrite(c) \/ SetLike(c) \/ UnsetLike(c) \/ CallFails(c)
        PROVE  FALSE
    BY <2>3, PlainFrame DEF SubmitInsert, SubmitCommit, ResolveWrite, SetLike, UnsetLike, CallFails
  <2>4. CASE \/ UNCHANGED vars \/ PageStep \/ (\E u \in Liker : AccountRemoved(u))
             \/ \E i \in Report : TimePasses(i) \/ PurgeExpiredReports(i)
    BY <2>4, PageStepFrame, ClockRows DEF vars, AccountRemoved
  <2> QED
    BY <2>1, <2>2, <2>3, <2>4, StepKinds DEF WriteStep
<1>2. ASSUME Inv, [Next]_vars PROVE Closed
  <2> SUFFICES ASSUME NEW i \in Report, rep[i].life = "closed", rep'[i].life = "closed",
                      [rep[i] EXCEPT !.recent = TRUE] # [rep'[i] EXCEPT !.recent = TRUE]
               PROVE  \E c \in Call : loc[c].report = i /\ pc'[c] # pc[c] /\ "closed" \in overlap[c]
    OBVIOUS
  <2> USE <1>2 DEF Inv
  <2>0. rep[i] \in Row /\ rep'[i] # rep[i]
    BY DEF TypeOK
  <2>1. ASSUME NEW c \in Call, SubmitCommit(c) \/ AutoQuarantine(c) \/ ResolveWrite(c)
        PROVE  loc[c].report = i /\ pc'[c] # pc[c] /\ "closed" \in overlap[c]
    <3>1. loc[c].report = i
      BY <2>0, <2>1, CommitRows, ResolveRows
    <3>2. pc[c] \in Referring /\ pc'[c] \in {"idle", "invalidate"}
      BY <2>1 DEF SubmitCommit, AutoQuarantine, ResolveWrite, Leave, Referring, Holding, TypeOK, CallType
    <3> QED
      BY <3>1, <3>2 DEF OverlapInv, Referring, Holding
  <2>2. ASSUME NEW c \in Call,
               \/ PlainStep(c) \/ ModerateWrite(c) \/ SetLike(c) \/ UnsetLike(c) \/ CallFails(c)
               \/ \E j \in Report : SubmitInsert(c, j)
        PROVE  FALSE
    <3>1. CASE PlainStep(c) \/ ModerateWrite(c) \/ SetLike(c) \/ UnsetLike(c)
      BY <2>0, <3>1, PlainFrame DEF ModerateWrite, SetLike, UnsetLike
    <3>2. CASE CallFails(c)
      BY <2>0, <3>2, FailRows
    <3>3. ASSUME NEW j \in Report, SubmitInsert(c, j) PROVE FALSE
      BY <2>0, <3>3, InsertRows
    <3> QED
      BY <2>2, <3>1, <3>2, <3>3
  <2>3. ASSUME NEW n \in Report, TimePasses(n) \/ PurgeExpiredReports(n) PROVE FALSE
    <3>1. rep'[i] = [rep[i] EXCEPT !.recent = FALSE]
      BY <2>0, <2>3, ClockRows
    <3>2. [rep'[i] EXCEPT !.recent = TRUE] = [rep[i] EXCEPT !.recent = TRUE]
      BY <2>0, <3>1 DEF Row
    <3> QED
      BY <3>2
  <2>4. CASE UNCHANGED vars \/ PageStep \/ (\E u \in Liker : AccountRemoved(u))
    BY <2>0, <2>4, PageStepFrame DEF vars, AccountRemoved
  <2> QED
    BY <2>1, <2>2, <2>3, <2>4, StepKinds DEF WriteStep
<1>3. Inv /\ [Next]_vars => [Removed /\ Closed]_vars
  BY <1>1, <1>2
<1> QED
  BY <1>3, VisibilityInvariant, PTL DEF Spec, DecisionsStay
=============================================================================
