----------------------------- MODULE BansProofs -----------------------------
(***************************************************************************)
(* Proofs about Bans, for any number of requests under check, of           *)
(* administrators' calls and of rows, and any bounds.                      *)
(*                                                                         *)
(* The argument.  What a check is about to store agrees with the rows if   *)
(* it was read after the last change of what is in force; a ban or lift    *)
(* settles when this is so for every check under way, and stays settled    *)
(* until the rows change (SettledInv).  A check keeps the bans it knew at  *)
(* its start only while they are in force, so the row it reads refuses it  *)
(* (KnownInv).  For the ranges the verdict under a version it has read     *)
(* since a ban was announced cannot be "no ban": whatever is stored there  *)
(* was read after the announcement, since a version is fresh when the      *)
(* announcement makes it.                                                  *)
(***************************************************************************)
EXTENDS Bans, FiniteSetTheorems, TLAPS

\* The targets with a ban in force, and the administrators' calls under way.
inForce == {t \in Target : \E i \in RowId : row[t][i] \in {"perm", "temp"}}
Busy == {b \in Admin : place[b] # "idle"}

\* One row at most is not lifted: the unique indexes.
OneRow ==
  \A t \in Target : \A i, j \in RowId : row[t][i] \in Until /\ row[t][j] \in Until => i = j

\* A call is about a target of the behaviour, and the bound on versions leaves
\* one for every call about an address.
AdminInv ==
  /\ \A a \in Admin :
       /\ place[a] # "idle" => target[a] \in scope
       /\ place[a] = "cache" => target[a] # "cidr"
       /\ place[a] = "bump" => target[a] # "user"
  /\ "user" \notin scope => version + Cardinality(Busy) <= MaxVersion

\* What is settled agrees with the rows, and so does all that checks and calls
\* are about to store.
SettledInv ==
  \A t \in {"user", "ip"} :
    /\ settled[t] # "no" => t = CheckedTarget
    /\ settled[t] = "ban" => /\ t \in inForce /\ cache[t] # "neg"
                             /\ \A c \in Checker : pc[c] = "set" => found[c] # "neg"
    /\ settled[t] = "lift" =>
         /\ t \notin inForce /\ cache[t] \notin {"perm", "temp"}
         /\ \A c \in Checker : pc[c] = "set" => found[c] = "neg"
         /\ \A a \in Admin : place[a] = "cache" /\ target[a] = t => end[a] = "lifted"

\* Nothing under version v says that the range is not banned.
Banned(v) ==
  /\ verdict[v] # "neg"
  /\ \A c \in Checker : pc[c] = "setVerdict" /\ ver[c] = v => found[c] # "neg"

\* What a check knows is in force; the further it has come, the less it can know.
KnownInv ==
  /\ announced => "cidr" \in inForce /\ Banned(version)
  /\ \A v \in 0 .. MaxVersion : v > version => verdict[v] = "none"
  /\ \A c \in Checker :
       /\ ver[c] <= version
       /\ known[c] \subseteq inForce \cap scope
       /\ "cidr" \in known[c] => announced
       /\ pc[c] = "set" /\ CheckedTarget \in known[c] => found[c] # "neg"
       /\ pc[c] \in {"version", "verdict", "ranges", "setVerdict"} =>
            "user" \notin scope /\ "ip" \notin known[c]
       /\ /\ pc[c] \in {"verdict", "ranges", "setVerdict"}
          /\ "cidr" \in known[c] /\ c \notin blind
          => Banned(ver[c])
       /\ pc[c] = "allowed" => known[c] \subseteq (IF c \in blind THEN {"cidr"} ELSE {})

Inv ==
  /\ RowType /\ CacheType /\ CheckType /\ AdminType /\ HistoryType /\ faults \in 0 .. MaxFaults
  /\ OneRow /\ AdminInv /\ SettledInv /\ KnownInv

----------------------------------------------------------------------------
(* The operators of the model. *)

\* A behaviour is about the user or about the address, and checks the one or the other.
LEMMA ScopeFacts ==
  ASSUME RowType
  PROVE  /\ scope \subseteq Target
         /\ "user" \in scope => scope = {"user"} /\ CheckedTarget = "user"
         /\ "user" \notin scope => CheckedTarget = "ip"
         /\ CheckedTarget \in {"user", "ip"}
  BY BanAssumption DEF RowType, Target, CheckedTarget

\* The query for the active ban finds one exactly when one is in force.
LEMMA ActiveBanFacts ==
  ASSUME NEW t \in Target
  PROVE  /\ InForce(t) <=> t \in inForce
         /\ ActiveBan(t) \in {"perm", "temp", "neg"}
         /\ ActiveBan(t) = "neg" <=> t \notin inForce
  BY DEF InForce, ActiveBan, inForce

\* A write to a row: what is in force afterwards, and who forgets about it.
LEMMA SetRowEffect ==
  ASSUME RowType, HistoryType, NEW t \in Target, NEW i \in RowId, NEW u \in Until \cup {"lifted"},
         SetRow(t, i, u)
  PROVE  /\ RowType' /\ HistoryType' /\ UNCHANGED <<scope, blind>>
         /\ row'[t][i] = u
         /\ \A s \in Target, j \in RowId : s # t \/ j # i => row'[s][j] = row[s][j]
         /\ \A s \in Target \ {t} : s \in inForce' <=> s \in inForce
         /\ u \in {"perm", "temp"} => t \in inForce'
         /\ t \in inForce' => UNCHANGED <<announced, known>>
         /\ t \notin inForce' => /\ announced' = (announced /\ t # "cidr")
                                 /\ \A c \in Checker : known'[c] = known[c] \ {t}
         /\ \A s \in {"user", "ip"} :
              settled'[s] = IF s = t /\ (t \in inForce) # (t \in inForce') THEN "no" ELSE settled[s]
<1>1. row' = [row EXCEPT ![t][i] = u] /\ UNCHANGED <<scope, blind>> BY DEF SetRow
<1>2. /\ row'[t][i] = u
      /\ \A s \in Target, j \in RowId : s # t \/ j # i => row'[s][j] = row[s][j]
      /\ row' \in [Target -> [RowId -> Until \cup {"lifted"}]]
  BY <1>1 DEF RowType
<1>3. t \in inForce' <=> StillInForce(t, i, u)
  BY <1>2 DEF inForce, StillInForce
<1>4. \A s \in Target \ {t} : s \in inForce' <=> s \in inForce
  BY <1>2 DEF inForce
<1>5. u \in {"perm", "temp"} => t \in inForce'
  BY <1>3 DEF StillInForce
<1>6. InForce(t) <=> t \in inForce
  BY ActiveBanFacts
<1>7. /\ t \in inForce' => UNCHANGED <<announced, known>>
      /\ t \notin inForce' => /\ announced' = (announced /\ t # "cidr")
                              /\ known' = [c \in Checker |-> known[c] \ {t}]
  BY <1>3 DEF SetRow
<1>8. settled' = [s \in {"user", "ip"} |->
        IF s = t /\ (t \in inForce) # (t \in inForce') THEN "no" ELSE settled[s]]
  <2>1. DOMAIN settled = {"user", "ip"} BY DEF HistoryType
  <2>2. settled' = [s \in DOMAIN settled |->
                  IF s = t /\ InForce(t) # StillInForce(t, i, u) THEN "no" ELSE settled[s]]
    BY DEF SetRow
  <2>3. (InForce(t) # StillInForce(t, i, u)) <=> ((t \in inForce) # (t \in inForce'))
    <3>1. InForce(t) \in BOOLEAN /\ StillInForce(t, i, u) \in BOOLEAN
      BY DEF InForce, StillInForce
    <3>2. QED BY <1>3, <1>6, <3>1
  <2>4. QED BY <2>1, <2>2, <2>3, Zenon
<1>9. HistoryType'
  BY <1>1, <1>7, <1>8 DEF HistoryType
<1>10. QED BY <1>1, <1>2, <1>4, <1>5, <1>7, <1>8, <1>9 DEF RowType

\* A check that begins knows only what is in force by then.
LEMMA BeginsEffect ==
  ASSUME RowType, HistoryType, NEW c \in Checker, Begins(c)
  PROVE  /\ HistoryType' /\ UNCHANGED <<announced, settled>> /\ blind' = blind \ {c}
         /\ \A d \in Checker \ {c} : known'[d] = known[d]
         /\ known'[c] \subseteq inForce \cap scope
         /\ "cidr" \in known'[c] => announced
         /\ "user" \in known'[c] => settled["user"] = "ban"
<1> DEFINE K == {t \in scope : /\ InForce(t)
                               /\ t = "cidr" => announced
                               /\ t = "user" => settled[t] = "ban"}
<1>1. known' = [known EXCEPT ![c] = K] /\ blind' = blind \ {c} /\ UNCHANGED <<announced, settled>>
  BY DEF Begins
<1>2. /\ K \subseteq inForce \cap scope /\ K \subseteq Target
      /\ "cidr" \in K => announced
      /\ "user" \in K => settled["user"] = "ban"
  BY ScopeFacts, ActiveBanFacts
<1> HIDE DEF K
<1>3. QED BY <1>1, <1>2 DEF HistoryType

\* A check that is refused forgets everything.
LEMMA RefuseEffect ==
  ASSUME CheckType, HistoryType, MaxVersion \in Nat, NEW c \in Checker, Refuse(c)
  PROVE  /\ CheckType' /\ HistoryType' /\ UNCHANGED <<announced, settled>> /\ blind' = blind \ {c}
         /\ \A d \in Checker \ {c} : /\ known'[d] = known[d] /\ pc'[d] = pc[d]
                                     /\ found'[d] = found[d] /\ ver'[d] = ver[d]
         /\ known'[c] = {} /\ pc'[c] = "idle" /\ ver'[c] = 0
  BY DEF Refuse, Return, At, CheckType, HistoryType, Rest, Entry, Until

\* An answer lets the request pass exactly when there is no ban.
LEMMA AnswerEffect ==
  ASSUME CheckType, HistoryType, MaxVersion \in Nat, NEW c \in Checker, NEW e, Answer(c, e)
  PROVE  \/ Refuse(c)
         \/ /\ e = "neg" /\ UNCHANGED historyVars /\ CheckType'
            /\ \A d \in Checker \ {c} : pc'[d] = pc[d] /\ found'[d] = found[d] /\ ver'[d] = ver[d]
            /\ pc'[c] = "allowed" /\ ver'[c] = 0
  BY DEF Answer, Return, At, CheckType, Rest, Entry, Until

----------------------------------------------------------------------------
(* Types, and the one row that is not lifted. *)

Types == RowType /\ CacheType /\ CheckType /\ AdminType /\ HistoryType

\* The steps of a check, and those of a call, by the variables they leave alone.
LEMMA CheckFrame ==
  ASSUME NEW c \in Checker, UserGet(c) \/ IpGet(c) \/ CheckStep(c)
  PROVE  UNCHANGED <<scope, row, version, place, target, held, end>>
  BY DEF UserGet, IpGet, CheckStep, UserDel, Query, SetFound, GetVersion, GetVerdict, QueryRanges,
         SetVerdict, rowVars, cacheVars, adminVars

\* Only these write rows.
LEMMA RowFrame ==
  ASSUME AdminType, [Next]_vars
  PROVE  \/ UNCHANGED rowVars
         \/ \E t \in Target, i \in RowId : row[t][i] = "temp" /\ SetRow(t, i, "past")
         \/ \E a \in Admin, i \in RowId :
              \/ Accepted(target[a], i) /\ end[a] # "lifted" /\ SetRow(target[a], i, end[a])
              \/ SetRow(target[a], i, "lifted")
<1>1. ASSUME NEW c \in Checker, UserGet(c) \/ IpGet(c) \/ CheckStep(c) PROVE UNCHANGED rowVars
  BY <1>1, CheckFrame DEF rowVars
<1>2. ASSUME NEW a \in Admin, AdminStep(a)
      PROVE  \/ UNCHANGED rowVars
             \/ \E i \in RowId :
                  \/ Accepted(target[a], i) /\ end[a] # "lifted" /\ SetRow(target[a], i, end[a])
                  \/ SetRow(target[a], i, "lifted")
  BY <1>2 DEF AdminStep, UpsertWrite, LiftWrite, WriteCache, BumpVersion, AdminType
<1>3. ASSUME NEW a \in Admin, UserBanCall(a) \/ IpBanCall(a) \/ AdminCut(a) PROVE UNCHANGED rowVars
  BY <1>3 DEF UserBanCall, IpBanCall, AdminRead, AdminCut
<1>4. ASSUME NEW t \in Target, NEW i \in RowId, BanEnds(t, i)
      PROVE  row[t][i] = "temp" /\ SetRow(t, i, "past")
  BY <1>4 DEF BanEnds
<1>5. ASSUME EntryEnds \/ (\E t \in {"user", "ip"} : EntryLapses(t))
             \/ (\E v \in 0 .. MaxVersion : VerdictLapses(v)) \/ UNCHANGED vars
      PROVE  UNCHANGED rowVars
  BY <1>5 DEF EntryEnds, EntryLapses, VerdictLapses, vars
<1>6. QED BY <1>1, <1>2, <1>3, <1>4, <1>5 DEF Next

\* The rows keep their types, and the unique index its promise.
LEMMA RowNext == ASSUME Types, OneRow, [Next]_vars PROVE RowType' /\ OneRow'
<1> USE DEF Types
<1>1. CASE UNCHANGED rowVars BY <1>1 DEF rowVars, RowType, OneRow
<1>2. ASSUME NEW t \in Target, NEW i \in RowId, row[t][i] = "temp", SetRow(t, i, "past")
      PROVE  RowType' /\ OneRow'
  BY <1>2, SetRowEffect DEF OneRow, Until
<1>3. ASSUME NEW a \in Admin, NEW i \in RowId, Accepted(target[a], i), SetRow(target[a], i, end[a])
      PROVE  RowType' /\ OneRow'
  <2>1. target[a] \in Target /\ end[a] \in Until \cup {"lifted"} BY DEF AdminType, Until
  <2>2. \A j \in RowId : row[target[a]][j] \in Until => j = i BY <1>3 DEF Accepted, Unlifted
  <2>3. QED BY <1>3, <2>1, <2>2, SetRowEffect DEF OneRow
<1>4. ASSUME NEW a \in Admin, NEW i \in RowId, SetRow(target[a], i, "lifted")
      PROVE  RowType' /\ OneRow'
  <2>1. target[a] \in Target BY DEF AdminType
  <2>2. QED BY <1>4, <2>1, SetRowEffect DEF OneRow, Until
<1>5. QED BY <1>1, <1>2, <1>3, <1>4, RowFrame

\* The checks and what they know keep their types.
LEMMA CheckTypeNext == ASSUME Types, [Next]_vars PROVE CheckType' /\ HistoryType'
<1> USE BanAssumption DEF Types
<1>1. ASSUME NEW c \in Checker, Refuse(c) PROVE CheckType' /\ HistoryType'
  BY <1>1, RefuseEffect
<1>2. ASSUME NEW c \in Checker, NEW e, Answer(c, e) PROVE CheckType' /\ HistoryType'
  BY <1>1, <1>2, AnswerEffect DEF historyVars, HistoryType
<1>3. ASSUME NEW c \in Checker, UserGet(c) \/ IpGet(c) PROVE CheckType' /\ HistoryType'
  <2>1. \/ Refuse(c)
        \/ Begins(c) /\ Return(c, "allowed")
        \/ Begins(c) /\ \E p \in {"del", "query"} : GoOn(c, p)
    BY <1>3 DEF UserGet, IpGet
  <2>2. CASE Begins(c) /\ Return(c, "allowed")
    BY <2>2, BeginsEffect DEF Return, At, CheckType, Rest, Entry
  <2>3. CASE Begins(c) /\ \E p \in {"del", "query"} : GoOn(c, p)
    BY <2>3, BeginsEffect DEF GoOn, At, CheckType
  <2>4. QED BY <1>1, <2>1, <2>2, <2>3
<1>4. ASSUME NEW c \in Checker, CheckStep(c) PROVE CheckType' /\ HistoryType'
  <2> USE DEF At, GoOn
  <2>1. CASE UserDel(c) BY <2>1 DEF UserDel, CheckType, HistoryType, historyVars
  <2>2. CASE Query(c)
    <3>1. CASE Refuse(c) BY <1>1, <3>1
    <3>2. CASE ~Refuse(c)
      <4>1. ActiveBan(CheckedTarget) \in Entry
        BY ScopeFacts, ActiveBanFacts DEF Target, Entry, Until
      <4>2. QED BY <2>2, <3>2, <4>1 DEF Query, CheckType, HistoryType, historyVars
    <3>3. QED BY <3>1, <3>2
  <2>3. CASE SetFound(c)
    <3>1. CASE Answer(c, found[c]) BY <1>2, <3>1
    <3>2. CASE ~Answer(c, found[c])
      BY <2>3, <3>2 DEF SetFound, CheckType, HistoryType, historyVars, Entry
    <3>3. QED BY <3>1, <3>2
  <2>4. CASE GetVersion(c) BY <2>4 DEF GetVersion, CheckType, HistoryType, CacheType
  <2>5. CASE GetVerdict(c)
    <3>1. CASE Answer(c, verdict[ver[c]]) \/ Refuse(c) BY <1>1, <1>2, <3>1
    <3>2. CASE ~(Answer(c, verdict[ver[c]]) \/ Refuse(c))
      BY <2>5, <3>2 DEF GetVerdict, CheckType, HistoryType, historyVars
    <3>3. QED BY <3>1, <3>2
  <2>6. CASE QueryRanges(c)
    <3>1. CASE Refuse(c) BY <1>1, <3>1
    <3>2. CASE ~Refuse(c)
      <4>1. ActiveBan("cidr") \in Entry
        BY ActiveBanFacts DEF Target, Entry, Until
      <4>2. QED BY <2>6, <3>2, <4>1 DEF QueryRanges, CheckType, HistoryType, historyVars
    <3>3. QED BY <3>1, <3>2
  <2>7. CASE SetVerdict(c) BY <1>2, <2>7 DEF SetVerdict
  <2>8. QED BY <1>4, <2>1, <2>2, <2>3, <2>4, <2>5, <2>6, <2>7 DEF CheckStep
<1>5. ASSUME UNCHANGED checkVars, UNCHANGED historyVars PROVE CheckType' /\ HistoryType'
  BY <1>5 DEF checkVars, historyVars, CheckType, HistoryType
<1>6. ASSUME NEW a \in Admin, AdminStep(a) PROVE CheckType' /\ HistoryType'
  <2>1. UNCHANGED checkVars BY <1>6 DEF AdminStep, UpsertWrite, LiftWrite, WriteCache, BumpVersion
  <2>2. CheckType' BY <2>1 DEF checkVars, CheckType
  <2>3. target[a] \in Target /\ end[a] \in Until \cup {"lifted"} BY DEF AdminType, Until
  <2>4. CASE UpsertWrite(a)
    BY <2>2, <2>3, <2>4, SetRowEffect DEF UpsertWrite, HistoryType, historyVars
  <2>5. CASE LiftWrite(a)
    <3>1. held[a] # NoRow => held[a] \in RowId BY DEF AdminType
    <3>2. QED BY <2>2, <2>3, <2>5, <3>1, SetRowEffect DEF LiftWrite, HistoryType, historyVars
  <2>6. CASE WriteCache(a) BY <2>2, <2>6 DEF WriteCache, HistoryType
  <2>7. CASE BumpVersion(a) BY <2>2, <2>7 DEF BumpVersion, HistoryType, InForce
  <2>8. QED BY <1>6, <2>4, <2>5, <2>6, <2>7 DEF AdminStep
<1>7. ASSUME NEW t \in Target, NEW i \in RowId, BanEnds(t, i) PROVE CheckType' /\ HistoryType'
  <2>1. "past" \in Until BY DEF Until
  <2>2. HistoryType' BY <1>7, <2>1, SetRowEffect DEF BanEnds
  <2>3. QED BY <1>7, <2>2 DEF BanEnds, checkVars, CheckType
<1>8. QED BY <1>3, <1>4, <1>5, <1>6, <1>7
  DEF Next, vars, UserBanCall, IpBanCall, AdminRead, AdminCut, EntryEnds, EntryLapses, VerdictLapses

\* The entries and the verdicts keep their types; the bound on versions holds.
LEMMA CacheTypeNext == ASSUME Types, AdminInv, [Next]_vars PROVE CacheType'
<1> USE BanAssumption DEF Types, CacheType
<1>1. CASE UNCHANGED cacheVars BY <1>1 DEF cacheVars
<1>2. ASSUME NEW c \in Checker, UserGet(c) \/ IpGet(c) \/ CheckStep(c) PROVE CacheType'
  <2>1. UNCHANGED version BY <1>2, CheckFrame
  <2>2. cache' \in {cache, [cache EXCEPT !["user"] = "none"],
                    [cache EXCEPT ![CheckedTarget] = found[c]]}
    BY <1>2 DEF UserGet, IpGet, CheckStep, UserDel, Query, SetFound, GetVersion, GetVerdict,
                QueryRanges, SetVerdict, cacheVars
  <2>3. verdict' \in {verdict, [verdict EXCEPT ![ver[c]] = found[c]]}
    BY <1>2 DEF UserGet, IpGet, CheckStep, UserDel, Query, SetFound, GetVersion, GetVerdict,
                QueryRanges, SetVerdict, cacheVars
  <2>4. found[c] \in Entry /\ "none" \in Entry BY DEF CheckType, Entry
  <2>5. QED BY <2>1, <2>2, <2>3, <2>4
<1>3. ASSUME NEW a \in Admin, WriteCache(a) PROVE CacheType'
  <2>1. \E e \in Entry : cache' \in {cache, [cache EXCEPT ![target[a]] = e]}
    BY <1>3 DEF WriteCache, AdminType, Entry, Until
  <2>2. QED BY <1>3, <2>1 DEF WriteCache
<1>4. ASSUME NEW a \in Admin, BumpVersion(a) PROVE CacheType'
  <2>1. a \in Busy /\ "user" \notin scope
    BY <1>4, ScopeFacts DEF BumpVersion, Busy, AdminInv
  <2>2. IsFiniteSet(Busy) BY FS_Subset DEF Busy
  <2>3. Cardinality(Busy) \in Nat \ {0} BY <2>1, <2>2, FS_CardinalityType, FS_EmptySet
  <2>4. version + 1 <= MaxVersion BY <2>1, <2>3 DEF AdminInv
  <2>5. QED BY <1>4, <2>4 DEF BumpVersion
<1>5. CASE EntryEnds
  <2>1. \A e \in Entry : Ended(e) \in Entry BY DEF Ended, Entry, Until
  <2>2. QED BY <1>5, <2>1 DEF EntryEnds
<1>6. ASSUME NEW t \in {"user", "ip"}, EntryLapses(t) PROVE CacheType'
  BY <1>6 DEF EntryLapses, Entry
<1>7. ASSUME NEW v \in 0 .. MaxVersion, VerdictLapses(v) PROVE CacheType'
  BY <1>7 DEF VerdictLapses, Entry
<1>8. QED BY <1>1, <1>2, <1>3, <1>4, <1>5, <1>6, <1>7
  DEF Next, vars, UserBanCall, IpBanCall, AdminRead, AdminCut, AdminStep, UpsertWrite, LiftWrite,
      BanEnds

\* The calls keep their types, stay within the scope and within the bound.
LEMMA AdminNext == ASSUME Types, AdminInv, [Next]_vars PROVE AdminType' /\ AdminInv'
<1> USE BanAssumption DEF Types
<1>1. IsFiniteSet(Busy) /\ Cardinality(Busy) \in Nat BY FS_Subset, FS_CardinalityType DEF Busy
<1>2. CASE UNCHANGED <<scope, version, adminVars>>
  BY <1>2 DEF adminVars, AdminType, AdminInv, Busy
<1>3. ASSUME NEW a \in Admin, AdminReturn(a), a \in Busy, scope' = scope,
             version' = version \/ ("user" \notin scope /\ version' = version + 1)
      PROVE  AdminType' /\ AdminInv'
  <2>1. AdminType' /\ Busy' = Busy \ {a}
    BY <1>3 DEF AdminReturn, AdminAt, AdminType, Busy, Target
  <2>2. Cardinality(Busy') = Cardinality(Busy) - 1 BY <1>1, <1>3, <2>1, FS_RemoveElement
  <2>3. \A b \in Admin : /\ place'[b] # "idle" => target'[b] \in scope'
                         /\ place'[b] = "cache" => target'[b] # "cidr"
                         /\ place'[b] = "bump" => target'[b] # "user"
    BY <1>3 DEF AdminReturn, AdminAt, AdminType, AdminInv
  <2>4. "user" \notin scope' => version' + Cardinality(Busy') <= MaxVersion
    BY <1>1, <1>3, <2>2 DEF AdminInv, CacheType
  <2>5. QED BY <2>1, <2>3, <2>4 DEF AdminInv
<1>4. ASSUME NEW a \in Admin, NEW p \in {"cache", "bump"}, AdminAt(a, p), a \in Busy,
             p = "cache" => target[a] # "cidr", p = "bump" => target[a] # "user",
             held' \in [Admin -> RowId \cup {NoRow}],
             UNCHANGED <<scope, version, target, end>>
      PROVE  AdminType' /\ AdminInv'
  <2>1. AdminType' /\ Busy' = Busy BY <1>4 DEF AdminAt, AdminType, Busy
  <2>2. QED BY <1>4, <2>1 DEF AdminAt, AdminType, AdminInv, Busy
<1>5. ASSUME NEW a \in Admin, NEW t \in Target, NEW e \in {"perm", "temp", "lifted"},
             AdminRead(a, t, e)
      PROVE  AdminType' /\ AdminInv'
  <2>1. /\ place[a] = "idle" /\ t \in scope /\ Bounded(t)
        /\ place' = [place EXCEPT ![a] = "write"] /\ target' = [target EXCEPT ![a] = t]
        /\ end' = [end EXCEPT ![a] = e] /\ UNCHANGED <<scope, version>>
    BY <1>5 DEF AdminRead, AdminAt, rowVars, cacheVars
  <2>2. Unlifted(t) # {} => (CHOOSE i \in RowId : i \in Unlifted(t)) \in RowId BY DEF Unlifted
  <2>3. AdminType' BY <1>5, <2>1, <2>2 DEF AdminRead, AdminType
  <2>4. Busy' = Busy \cup {a} /\ a \notin Busy BY <2>1 DEF Busy, AdminType
  <2>5. Cardinality(Busy') = Cardinality(Busy) + 1 BY <1>1, <2>4, FS_AddElement
  <2>6. "user" \notin scope => version + Cardinality(Busy) < MaxVersion
    BY <2>1 DEF Bounded, Busy
  <2>7. "user" \notin scope' => version' + Cardinality(Busy') <= MaxVersion
    BY <1>1, <2>1, <2>5, <2>6 DEF CacheType
  <2>8. QED BY <2>1, <2>3, <2>7 DEF AdminInv, AdminType
<1>6. ASSUME NEW a \in Admin, AdminStep(a) \/ AdminCut(a) PROVE AdminType' /\ AdminInv'
  <2>1. a \in Busy
    BY <1>6 DEF AdminStep, AdminCut, UpsertWrite, LiftWrite, WriteCache, BumpVersion, Busy
  <2>2. UNCHANGED scope
    BY <1>6 DEF AdminStep, AdminCut, UpsertWrite, LiftWrite, WriteCache, BumpVersion, SetRow, rowVars
  <2>3. ASSUME AfterWrite(a), UNCHANGED version PROVE AdminType' /\ AdminInv'
    <3>1. held' \in [Admin -> RowId \cup {NoRow}] BY <2>3 DEF AfterWrite, AdminType
    <3>2. QED BY <1>4, <2>1, <2>2, <2>3, <3>1 DEF AfterWrite
  <2>4. CASE UpsertWrite(a) \/ LiftWrite(a)
    BY <1>3, <2>1, <2>2, <2>3, <2>4 DEF UpsertWrite, LiftWrite, cacheVars
  <2>5. CASE WriteCache(a)
    BY <1>3, <1>4, <2>1, <2>2, <2>5 DEF WriteCache, AdminInv, AdminType
  <2>6. CASE BumpVersion(a)
    <3>1. "user" \notin scope BY <2>6, ScopeFacts DEF BumpVersion, AdminInv
    <3>2. QED BY <1>3, <2>1, <2>2, <2>6, <3>1 DEF BumpVersion
  <2>7. CASE AdminCut(a) BY <1>3, <2>1, <2>2, <2>7 DEF AdminCut, cacheVars
  <2>8. QED BY <1>6, <2>4, <2>5, <2>6, <2>7 DEF AdminStep
<1>7. ASSUME NEW c \in Checker, UserGet(c) \/ IpGet(c) \/ CheckStep(c) PROVE AdminType' /\ AdminInv'
  BY <1>2, <1>7, CheckFrame DEF adminVars
<1>8. ASSUME NEW a \in Admin, UserBanCall(a) \/ IpBanCall(a) PROVE AdminType' /\ AdminInv'
  BY <1>5, <1>8 DEF UserBanCall, IpBanCall, Target
<1>9. QED BY <1>2, <1>6, <1>7, <1>8
  DEF Next, vars, rowVars, cacheVars, BanEnds, SetRow, EntryEnds, EntryLapses, VerdictLapses

----------------------------------------------------------------------------
(* What is settled. *)

\* What is settled stays right until the rows change.
LEMMA SettledNext == ASSUME Types, AdminInv, SettledInv, [Next]_vars PROVE SettledInv'
<1> USE DEF Types, SettledInv
<1>1. ASSUME UNCHANGED <<scope, row>> PROVE UNCHANGED <<CheckedTarget, inForce>>
  BY <1>1 DEF CheckedTarget, inForce
<1>2. ASSUME NEW c \in Checker, UserGet(c) \/ IpGet(c) \/ CheckStep(c) PROVE SettledInv'
  <2>1. UNCHANGED <<scope, row, place, target, end, CheckedTarget, inForce, settled>>
    BY <1>1, <1>2, CheckFrame
    DEF UserGet, IpGet, CheckStep, UserDel, Query, SetFound, GetVersion, GetVerdict, QueryRanges,
        SetVerdict, historyVars, Begins, Refuse, Answer
  <2>2. cache' = cache \/ cache' = [cache EXCEPT !["user"] = "none"]
        \/ (pc[c] = "set" /\ cache' = [cache EXCEPT ![CheckedTarget] = found[c]])
    BY <1>2 DEF UserGet, IpGet, CheckStep, UserDel, Query, SetFound, GetVersion, GetVerdict,
                QueryRanges, SetVerdict, cacheVars
  <2>3. \A d \in Checker : pc'[d] = "set" =>
          \/ pc[d] = "set" /\ found'[d] = found[d]
          \/ found'[d] = ActiveBan(CheckedTarget)
    <3> USE DEF CheckType
    <3>1. CASE Query(c) BY <3>1 DEF Query, At, Refuse, Return
    <3>2. CASE ~Query(c)
      BY <1>2, <3>2 DEF UserGet, IpGet, CheckStep, UserDel, SetFound, GetVersion, GetVerdict,
         QueryRanges, SetVerdict, At, GoOn, Refuse, Return, Answer
    <3>3. QED BY <3>1, <3>2
  <2>4. CheckedTarget \in Target /\ (ActiveBan(CheckedTarget) = "neg" <=> CheckedTarget \notin inForce)
    BY ScopeFacts, ActiveBanFacts DEF Target
  <2>5. ASSUME NEW t \in {"user", "ip"}, settled[t] # "no"
        PROVE  /\ settled[t] = "ban" => cache'[t] # "neg"
               /\ settled[t] = "lift" => cache'[t] \notin {"perm", "temp"}
    BY <2>2, <2>5 DEF CacheType
  <2> HIDE DEF CheckedTarget, inForce, ActiveBan
  <2>6. QED BY <2>1, <2>3, <2>4, <2>5
<1>3. ASSUME NEW t \in Target, NEW i \in RowId, NEW u \in Until \cup {"lifted"}, SetRow(t, i, u),
             UNCHANGED <<cache, pc, found>>,
             \A a \in Admin : place'[a] = "cache" =>
               \/ place[a] = "cache" /\ target'[a] = target[a] /\ end'[a] = end[a]
               \/ end'[a] = "lifted"
               \/ target'[a] = t /\ u \in {"perm", "temp"}
      PROVE  SettledInv'
  <2>1. UNCHANGED CheckedTarget BY <1>3 DEF SetRow, CheckedTarget
  <2>2. /\ \A s \in Target \ {t} : s \in inForce' <=> s \in inForce
        /\ u \in {"perm", "temp"} => t \in inForce'
        /\ \A s \in {"user", "ip"} :
              settled'[s] = IF s = t /\ (t \in inForce) # (t \in inForce') THEN "no" ELSE settled[s]
    BY <1>3, SetRowEffect
  <2>3. \A s \in {"user", "ip"} : settled'[s] # "no" =>
          settled'[s] = settled[s] /\ (s \in inForce' <=> s \in inForce)
    BY <2>2 DEF Target
  <2> HIDE DEF inForce
  <2>4. QED BY <1>3, <2>1, <2>2, <2>3
<1>4. ASSUME NEW a \in Admin, UpsertWrite(a) \/ LiftWrite(a) PROVE SettledInv'
  <2> USE DEF AdminType, AfterWrite, AdminReturn, AdminAt, cacheVars, checkVars
  <2>1. target[a] \in Target /\ end[a] \in Until \cup {"lifted"} /\ "lifted" \in Until \cup {"lifted"}
    BY DEF Until
  <2>2. UNCHANGED <<cache, pc, found>> BY <1>4 DEF UpsertWrite, LiftWrite
  <2>3. ASSUME AdminReturn(a) \/ (AfterWrite(a) /\ end[a] = "lifted"),
               UNCHANGED <<rowVars, historyVars>>
        PROVE  SettledInv'
    <3>1. \A b \in Admin : place'[b] = "cache" =>
               \/ place[b] = "cache" /\ target'[b] = target[b] /\ end'[b] = end[b]
               \/ end'[b] = "lifted"
      BY <2>3
    <3>2. UNCHANGED <<CheckedTarget, inForce, settled>> BY <1>1, <2>3 DEF rowVars, historyVars
    <3>3. QED BY <2>2, <3>1, <3>2
  <2>4. ASSUME UpsertWrite(a), NEW i \in RowId, SetRow(target[a], i, end[a]), AfterWrite(a)
        PROVE SettledInv'
    <3>1. end[a] \in {"perm", "temp"} BY <2>4 DEF UpsertWrite
    <3>2. \A b \in Admin : place'[b] = "cache" =>
               \/ place[b] = "cache" /\ target'[b] = target[b] /\ end'[b] = end[b]
               \/ target'[b] = target[a]
      BY <2>4
    <3>3. QED BY <1>3, <2>1, <2>2, <2>4, <3>1, <3>2
  <2>5. ASSUME LiftWrite(a), held[a] # NoRow, SetRow(target[a], held[a], "lifted"), AfterWrite(a)
        PROVE SettledInv'
    <3>1. \A b \in Admin : place'[b] = "cache" =>
               \/ place[b] = "cache" /\ target'[b] = target[b] /\ end'[b] = end[b]
               \/ end'[b] = "lifted"
      BY <2>5 DEF LiftWrite
    <3>2. held[a] \in RowId BY <2>5
    <3>3. QED BY <1>3, <2>1, <2>2, <2>5, <3>1, <3>2
  <2>6. QED BY <1>4, <2>3, <2>4, <2>5 DEF UpsertWrite, LiftWrite
<1>5. ASSUME NEW a \in Admin, WriteCache(a) PROVE SettledInv'
  <2> DEFINE t == target[a]
  <2>1. /\ UNCHANGED <<scope, row, pc, found>>
        /\ t \in {"user", "ip"} /\ t = CheckedTarget
        /\ InForce(t) <=> t \in inForce
    BY <1>5, ScopeFacts, ActiveBanFacts DEF WriteCache, AdminInv, AdminType, Target, rowVars, checkVars
  <2>2. UNCHANGED <<CheckedTarget, inForce>> BY <1>1, <2>1
  <2>3. \A b \in Admin : place'[b] = "cache" =>
               place[b] = "cache" /\ target'[b] = target[b] /\ end'[b] = end[b]
    BY <1>5 DEF WriteCache, AdminReturn, AdminAt, AdminType
  <2>4. CASE UNCHANGED <<cache, settled>> BY <2>1, <2>2, <2>3, <2>4
  <2>5. CASE ~UNCHANGED <<cache, settled>>
    <3>1. /\ cache' = [cache EXCEPT ![t] = IF end[a] = "lifted" THEN "none" ELSE end[a]]
          /\ settled' = [settled EXCEPT ![t] =
                 IF ~Undisturbed(a) THEN @ ELSE IF end[a] = "lifted" THEN "lift" ELSE "ban"]
          /\ place[a] = "cache"
      BY <1>5, <2>5 DEF WriteCache
    <3>2. end[a] \in {"perm", "temp", "lifted"} BY DEF AdminType
    <3>3. /\ cache'[t] = IF end[a] = "lifted" THEN "none" ELSE end[a]
          /\ \A s \in {"user", "ip"} \ {t} : cache'[s] = cache[s] /\ settled'[s] = settled[s]
          /\ ~Undisturbed(a) => settled'[t] = settled[t]
          /\ Undisturbed(a) => settled'[t] = IF end[a] = "lifted" THEN "lift" ELSE "ban"
      BY <2>1, <3>1 DEF CacheType, HistoryType
    <3>4. CASE Undisturbed(a)
      <4>1. /\ t \in inForce <=> end[a] # "lifted"
            /\ \A c \in Checker : pc[c] = "set" => (found[c] = "neg" <=> end[a] = "lifted")
            /\ end[a] = "lifted" =>
                 \A b \in Admin : place[b] = "cache" /\ target[b] = t => end[b] = "lifted"
        BY <2>1, <3>4, Zenon DEF Undisturbed
      <4>2. QED BY <2>1, <2>2, <2>3, <3>1, <3>2, <3>3, <3>4, <4>1
    <3>5. CASE ~Undisturbed(a)
      BY <2>1, <2>2, <2>3, <3>1, <3>2, <3>3, <3>5
    <3>6. QED BY <3>4, <3>5
  <2>6. QED BY <2>4, <2>5
<1>6. ASSUME NEW a \in Admin, BumpVersion(a) \/ AdminCut(a) \/ UserBanCall(a) \/ IpBanCall(a)
      PROVE  SettledInv'
  <2>1. UNCHANGED <<scope, row, cache, pc, found, settled>>
    BY <1>6 DEF BumpVersion, AdminCut, UserBanCall, IpBanCall, AdminRead, rowVars, cacheVars,
                checkVars, historyVars
  <2>2. \A b \in Admin : place'[b] = "cache" =>
               place[b] = "cache" /\ target'[b] = target[b] /\ end'[b] = end[b]
    BY <1>6 DEF BumpVersion, AdminCut, UserBanCall, IpBanCall, AdminRead, AdminReturn, AdminAt,
                AdminType
  <2>3. QED BY <1>1, <2>1, <2>2
<1>7. ASSUME NEW t \in Target, NEW i \in RowId, BanEnds(t, i) PROVE SettledInv'
  BY <1>3, <1>7 DEF BanEnds, Until, cacheVars, checkVars, adminVars
<1>8. ASSUME UNCHANGED <<scope, row, pc, found, place, target, end, settled>>,
             \A t \in {"user", "ip"} : cache'[t] \in {cache[t], "none", "past"}
      PROVE  SettledInv'
  BY <1>1, <1>8
<1>9. ASSUME EntryEnds \/ \E t \in {"user", "ip"} : EntryLapses(t) PROVE SettledInv'
  BY <1>8, <1>9 DEF EntryEnds, EntryLapses, Ended, CacheType, rowVars, checkVars, adminVars, historyVars
<1>10. QED BY <1>2, <1>4, <1>5, <1>6, <1>7, <1>8, <1>9
  DEF Next, AdminStep, VerdictLapses, vars, rowVars, cacheVars, checkVars, adminVars, historyVars

----------------------------------------------------------------------------
(* What a check knows. *)

\* Nothing that c does concerns the other checks, unless it stores a verdict.
Alone(c) ==
  /\ UNCHANGED <<scope, inForce, CheckedTarget, version, announced>>
  /\ \A d \in Checker \ {c} : /\ pc'[d] = pc[d] /\ found'[d] = found[d] /\ ver'[d] = ver[d]
                              /\ known'[d] = known[d] /\ (d \in blind' <=> d \in blind)

\* What a step of a check leaves alone.
LEMMA AloneFacts ==
  ASSUME Types, NEW c \in Checker, UserGet(c) \/ IpGet(c) \/ CheckStep(c)
  PROVE  Alone(c)
<1> USE DEF Types
<1>1. UNCHANGED <<scope, row, version, inForce, CheckedTarget>>
  BY CheckFrame DEF inForce, CheckedTarget
<1>2. UNCHANGED announced
  BY DEF UserGet, IpGet, CheckStep, UserDel, Query, SetFound, GetVersion, GetVerdict, QueryRanges,
         SetVerdict, historyVars, Begins, Refuse, Answer
<1>3. \A d \in Checker \ {c} : pc'[d] = pc[d] /\ found'[d] = found[d] /\ ver'[d] = ver[d]
  BY DEF CheckType, UserGet, IpGet, CheckStep, UserDel, Query, SetFound, GetVersion, GetVerdict,
         QueryRanges, SetVerdict, Refuse, Answer, Return, GoOn, At
<1>4. \A d \in Checker \ {c} : known'[d] = known[d] /\ (d \in blind' <=> d \in blind)
  BY DEF HistoryType, UserGet, IpGet, CheckStep, UserDel, Query, SetFound, GetVersion, GetVerdict,
         QueryRanges, SetVerdict, historyVars, Begins, Refuse, Answer
<1>5. QED BY <1>1, <1>2, <1>3, <1>4 DEF Alone

\* What a check knows stays in force, and what it can be told agrees with it.
LEMMA KnownNext ==
  ASSUME Types, CacheType', AdminInv, SettledInv, KnownInv, [Next]_vars PROVE KnownInv'
<1> USE BanAssumption DEF Types, KnownInv, Banned
<1>1. ASSUME NEW c \in Checker, UserGet(c) \/ IpGet(c) \/ CheckStep(c) PROVE KnownInv'
  <2> DEFINE t == CheckedTarget
  <2>1. Alone(c) BY <1>1, AloneFacts
  <2>2. /\ t \in Target /\ "cidr" \in Target
        /\ ActiveBan(t) = "neg" <=> t \notin inForce
        /\ ActiveBan("cidr") = "neg" <=> "cidr" \notin inForce
        /\ "user" \in scope => scope = {"user"} /\ t = "user"
        /\ "user" \notin scope => t = "ip"
    BY ScopeFacts, ActiveBanFacts DEF Target
  <2>3. /\ ver \in [Checker -> 0 .. MaxVersion] /\ version \in 0 .. MaxVersion
        /\ verdict \in [0 .. MaxVersion -> Entry] /\ known \in [Checker -> SUBSET Target]
    BY DEF CheckType, CacheType, HistoryType
  <2> HIDE DEF t, Types
  <2> USE DEF Alone
  <2>4. ASSUME verdict' = verdict, Refuse(c) PROVE KnownInv'
    <3>1. known'[c] = {} /\ pc'[c] = "idle" /\ ver'[c] = 0
      BY <2>4, RefuseEffect DEF Types
    <3>2. QED BY <2>1, <2>3, <2>4, <3>1
  <2>5. ASSUME verdict' = verdict, pc'[c] = "allowed", ver'[c] = 0,
               known'[c] \subseteq inForce \cap scope, "cidr" \in known'[c] => announced,
               known'[c] \subseteq (IF c \in blind' THEN {"cidr"} ELSE {})
        PROVE KnownInv'
    <3>1. \A v \in 0 .. MaxVersion : Banned(v) => Banned(v)' BY <2>1, <2>3, <2>5
    <3> HIDE DEF Banned
    <3>2. QED BY <2>1, <2>3, <2>5, <3>1
  <2>6. ASSUME verdict' = verdict, pc'[c] \in {"del", "query"}, ver'[c] = ver[c],
               known'[c] \subseteq inForce \cap scope, "cidr" \in known'[c] => announced
        PROVE KnownInv'
    BY <2>1, <2>3, <2>6
  <2>7. CASE UserGet(c) \/ IpGet(c)
    <3>1. verdict' = verdict BY <2>7 DEF UserGet, IpGet, cacheVars
    <3>2. \/ Refuse(c)
          \/ Begins(c) /\ Return(c, "allowed") /\ cache["user"] = "neg" /\ "user" \in scope
          \/ Begins(c) /\ \E p \in {"del", "query"} : GoOn(c, p)
      BY <2>7 DEF UserGet, IpGet, UserRequest
    <3>3. CASE Begins(c) /\ Return(c, "allowed") /\ cache["user"] = "neg" /\ "user" \in scope
      <4>1. pc'[c] = "allowed" /\ ver'[c] = 0 BY <3>3 DEF Return, At, CheckType, Types
      <4>2. /\ known'[c] \subseteq inForce \cap scope
            /\ "user" \in known'[c] => settled["user"] = "ban"
        BY <3>3, BeginsEffect DEF Types
      <4>3. known'[c] = {} BY <2>2, <3>3, <4>2 DEF SettledInv
      <4>4. QED BY <2>5, <3>1, <4>1, <4>3
    <3>4. CASE Begins(c) /\ \E p \in {"del", "query"} : GoOn(c, p)
      <4>1. pc'[c] \in {"del", "query"} /\ ver'[c] = ver[c]
        BY <3>4 DEF GoOn, At, CheckType, Types
      <4>2. known'[c] \subseteq inForce \cap scope /\ ("cidr" \in known'[c] => announced)
        BY <3>4, BeginsEffect DEF Types
      <4>3. QED BY <2>6, <3>1, <4>1, <4>2
    <3>5. QED BY <2>4, <3>1, <3>2, <3>3, <3>4
  <2>8. CASE UserDel(c)
    BY <2>6, <2>8 DEF UserDel, GoOn, At, CheckType, Types, historyVars
  <2>9. CASE Query(c)
    <3>1. CASE Refuse(c) BY <2>4, <2>9, <3>1 DEF Query, cacheVars
    <3>2. CASE ~Refuse(c)
      <4>1. /\ pc'[c] = "set" /\ found'[c] = ActiveBan(t) /\ ver'[c] = ver[c]
            /\ known' = known /\ blind' = blind /\ verdict' = verdict
        BY <2>9, <3>2 DEF Query, At, CheckType, Types, historyVars, cacheVars, t
      <4>2. QED BY <2>1, <2>2, <2>3, <4>1 DEF t
    <3>3. QED BY <3>1, <3>2
  <2>10. CASE SetFound(c)
    <3>1. verdict' = verdict /\ pc[c] = "set" BY <2>10 DEF SetFound
    <3>2. CASE t = "ip" /\ found[c] = "neg"
      <4>1. /\ pc'[c] = "version" /\ ver'[c] = ver[c] /\ known' = known /\ blind' = blind
        BY <2>10, <3>2 DEF SetFound, At, CheckType, Types, historyVars, t
      <4>2. "user" \notin scope /\ "ip" \notin known[c] BY <2>2, <3>1, <3>2 DEF t
      <4>3. QED BY <2>1, <2>3, <3>1, <4>1, <4>2
    <3>3. CASE ~(t = "ip" /\ found[c] = "neg")
      <4>1. Answer(c, found[c]) BY <2>10, <3>3 DEF SetFound, t
      <4>2. CASE Refuse(c) BY <2>4, <3>1, <4>2
      <4>3. CASE ~Refuse(c)
        <5>1. /\ found[c] = "neg" /\ known' = known /\ pc'[c] = "allowed" /\ ver'[c] = 0
          BY <4>1, <4>3, AnswerEffect DEF Types, historyVars
        <5>2. known[c] = {} BY <2>2, <3>1, <3>3, <5>1 DEF t
        <5>3. QED BY <2>5, <3>1, <5>1, <5>2
      <4>4. QED BY <4>2, <4>3
    <3>4. QED BY <3>2, <3>3
  <2>11. CASE GetVersion(c)
    <3>1. /\ verdict' = verdict /\ known' = known /\ pc[c] = "version" /\ pc'[c] = "verdict"
          /\ found'[c] = found[c]
          /\ ver'[c] = version \/ (ver'[c] = 0 /\ c \in blind')
      BY <2>11 DEF GetVersion, At, CheckType, Types, cacheVars
    <3>2. QED BY <2>1, <2>3, <3>1
  <2>12. ASSUME NEW e, Answer(c, e), ~Refuse(c), verdict' = verdict,
                pc[c] \in {"verdict", "setVerdict"},
                e = "neg" => c \in blind \/ "cidr" \notin known[c]
         PROVE  KnownInv'
    <3>1. e = "neg" /\ known' = known /\ blind' = blind /\ pc'[c] = "allowed" /\ ver'[c] = 0
      BY <2>12, AnswerEffect DEF Types, historyVars
    <3>2. known[c] \subseteq {"cidr"} BY <2>2, <2>3, <2>12 DEF Target
    <3>3. QED BY <2>5, <2>12, <3>1, <3>2
  <2>13. CASE GetVerdict(c)
    <3>1. verdict' = verdict /\ pc[c] = "verdict" BY <2>13 DEF GetVerdict, cacheVars
    <3>2. CASE Refuse(c) BY <2>4, <3>1, <3>2
    <3>3. CASE Answer(c, verdict[ver[c]]) /\ ~Refuse(c)
      BY <2>12, <3>1, <3>3
    <3>4. CASE GoOn(c, "ranges") /\ UNCHANGED historyVars
      <4>1. /\ pc'[c] = "ranges" /\ ver'[c] = ver[c] /\ found'[c] = found[c]
            /\ known' = known /\ blind' = blind
        BY <3>4 DEF GoOn, At, CheckType, Types, historyVars
      <4>2. QED BY <2>1, <2>3, <3>1, <4>1, SMTT(30)
    <3>5. QED BY <2>13, <3>2, <3>3, <3>4 DEF GetVerdict
  <2>14. CASE QueryRanges(c)
    <3>1. verdict' = verdict /\ pc[c] = "ranges" BY <2>14 DEF QueryRanges, cacheVars
    <3>2. CASE Refuse(c) BY <2>4, <3>1, <3>2
    <3>3. CASE ~Refuse(c)
      <4>1. /\ pc'[c] = "setVerdict" /\ found'[c] = ActiveBan("cidr") /\ ver'[c] = ver[c]
            /\ known' = known /\ blind' = blind
        BY <2>14, <3>3 DEF QueryRanges, At, CheckType, Types, historyVars
      <4>2. QED BY <2>1, <2>2, <2>3, <3>1, <4>1, SMTT(30)
    <3>4. QED BY <3>2, <3>3
  <2>15. CASE SetVerdict(c)
    <3>1. /\ pc[c] = "setVerdict" /\ Answer(c, found[c])
          /\ verdict' = verdict \/ verdict' = [verdict EXCEPT ![ver[c]] = found[c]]
      BY <2>15 DEF SetVerdict
    <3>2. \A v \in 0 .. MaxVersion : \/ verdict'[v] = verdict[v]
                                     \/ v = ver[c] /\ verdict'[v] = found[c]
      BY <2>3, <3>1
    <3>3. /\ pc'[c] \in {"idle", "allowed"} /\ ver'[c] = 0
          /\ \/ known'[c] = {}
             \/ found[c] = "neg" /\ known' = known /\ blind' = blind
      <4>1. CASE Refuse(c) BY <4>1, RefuseEffect DEF Types
      <4>2. CASE ~Refuse(c) BY <3>1, <4>2, AnswerEffect DEF Types, historyVars
      <4>3. QED BY <4>1, <4>2
    <3>4. known'[c] \subseteq known[c] /\ known'[c] \subseteq (IF c \in blind' THEN {"cidr"} ELSE {})
      BY <2>2, <2>3, <3>1, <3>3 DEF Target
    <3>5. \A v \in 0 .. MaxVersion : v <= version /\ Banned(v) => Banned(v)'
      BY <2>1, <2>3, <3>1, <3>2, <3>3
    <3>6. \A v \in 0 .. MaxVersion : v > version => verdict'[v] = "none"
      BY <2>3, <3>2
    <3> HIDE DEF Banned
    <3>7. QED BY <2>1, <2>3, <3>1, <3>3, <3>4, <3>5, <3>6
  <2>16. QED BY <1>1, <2>7, <2>8, <2>9, <2>10, <2>11, <2>13, <2>14, <2>15 DEF CheckStep
<1>2. ASSUME NEW t \in Target, NEW i \in RowId, NEW u \in Until \cup {"lifted"}, SetRow(t, i, u),
             UNCHANGED <<verdict, version, pc, found, ver>>
      PROVE  KnownInv'
  <2>1. UNCHANGED CheckedTarget BY <1>2 DEF SetRow, CheckedTarget
  <2>2. /\ UNCHANGED <<scope, blind>>
        /\ \A s \in Target \ {t} : s \in inForce' <=> s \in inForce
        /\ t \in inForce' => UNCHANGED <<announced, known>>
        /\ t \notin inForce' => /\ announced' = (announced /\ t # "cidr")
                                /\ \A c \in Checker : known'[c] = known[c] \ {t}
    BY <1>2, SetRowEffect
  <2>3. known \in [Checker -> SUBSET Target] BY DEF HistoryType
  <2>4. \A c \in Checker : known'[c] \subseteq inForce'
    BY <2>2, <2>3
  <2> HIDE DEF Types
  <2>5. CASE t \in inForce' BY <1>2, <2>1, <2>2, <2>3, <2>4, <2>5 DEF Target
  <2>6. CASE t \notin inForce'
    <3>1. \A v \in 0 .. MaxVersion : Banned(v) => Banned(v)' BY <1>2
    <3>2. ver \in [Checker -> 0 .. MaxVersion] /\ version \in 0 .. MaxVersion
      BY DEF Types, CheckType, CacheType
    <3> HIDE DEF Banned
    <3>3. announced' => announced /\ "cidr" \in inForce' BY <2>2, <2>6 DEF Target
    <3>4. \A c \in Checker : known'[c] = known[c] \ {t} /\ ("cidr" \in known'[c] => announced')
      <4>1. \A c \in Checker : known'[c] = known[c] \ {t} BY <2>2, <2>6
      <4>2. \A c \in Checker : "cidr" \in known'[c] => announced /\ t # "cidr" BY <4>1
      <4>3. announced' = (announced /\ t # "cidr") BY <2>2, <2>6
      <4>4. QED BY <4>1, <4>2, <4>3, Zenon
    <3>5. ASSUME NEW c \in Checker
          PROVE  known'[c] \subseteq inForce' \cap scope' /\ known'[c] \subseteq known[c]
      BY <2>2, <2>4, <3>4
    <3>6. \A c \in Checker : pc'[c] = "allowed" =>
            known'[c] \subseteq (IF c \in blind' THEN {"cidr"} ELSE {})
      BY <1>2, <2>2, <3>5
    <3>7. QED BY <1>2, <2>1, <2>2, <3>1, <3>2, <3>3, <3>4, <3>5, <3>6
  <2>7. QED BY <2>5, <2>6
<1>3. ASSUME UNCHANGED <<scope, row, version, pc, found, ver, announced, known, blind>>,
             \A v \in 0 .. MaxVersion : verdict'[v] = verdict[v] \/ verdict'[v] = "none"
                                        \/ (verdict[v] = "temp" /\ verdict'[v] = "past")
      PROVE  KnownInv'
  <2>1. UNCHANGED <<CheckedTarget, inForce>> BY <1>3 DEF CheckedTarget, inForce
  <2>2. ver \in [Checker -> 0 .. MaxVersion] /\ version \in 0 .. MaxVersion
    BY DEF CheckType, CacheType
  <2> HIDE DEF Types
  <2>3. QED BY <1>3, <2>1, <2>2
<1>4. ASSUME NEW a \in Admin, AdminStep(a) PROVE KnownInv'
  <2>1. target[a] \in Target /\ end[a] \in Until \cup {"lifted"} /\ "lifted" \in Until \cup {"lifted"}
    BY DEF AdminType, Until
  <2>2. CASE UpsertWrite(a)
    BY <1>2, <1>3, <2>1, <2>2 DEF UpsertWrite, rowVars, cacheVars, checkVars, historyVars
  <2>3. CASE LiftWrite(a)
    <3>1. held[a] # NoRow => held[a] \in RowId BY DEF AdminType
    <3>2. QED BY <1>2, <1>3, <2>1, <2>3, <3>1 DEF LiftWrite, rowVars, cacheVars, checkVars, historyVars
  <2>4. CASE WriteCache(a) BY <1>3, <2>4 DEF WriteCache, rowVars, checkVars
  <2>5. CASE BumpVersion(a)
    <3>1. /\ UNCHANGED <<scope, row, verdict, pc, found, ver, known, blind>>
          /\ version' = version + 1 /\ announced' = InForce("cidr")
      BY <2>5 DEF BumpVersion, rowVars, checkVars
    <3>2. UNCHANGED <<CheckedTarget, inForce>> BY <3>1 DEF CheckedTarget, inForce
    <3>3. InForce("cidr") <=> "cidr" \in inForce BY ActiveBanFacts DEF Target
    <3>4. /\ version \in 0 .. MaxVersion /\ version' \in 0 .. MaxVersion
          /\ ver \in [Checker -> 0 .. MaxVersion]
      BY DEF CheckType, CacheType
    <3> HIDE DEF Types
    <3>5. QED BY <3>1, <3>2, <3>3, <3>4
  <2>6. QED BY <1>4, <2>2, <2>3, <2>4, <2>5 DEF AdminStep
<1>5. ASSUME NEW a \in Admin, AdminCut(a) \/ UserBanCall(a) \/ IpBanCall(a) PROVE KnownInv'
  BY <1>3, <1>5 DEF AdminCut, UserBanCall, IpBanCall, AdminRead, rowVars, cacheVars, checkVars,
                    historyVars
<1>6. ASSUME NEW t \in Target, NEW i \in RowId, BanEnds(t, i) PROVE KnownInv'
  BY <1>2, <1>6 DEF BanEnds, Until, cacheVars, checkVars
<1>7. CASE EntryEnds
  BY <1>3, <1>7 DEF EntryEnds, Ended, CacheType, rowVars, checkVars, historyVars
<1>8. ASSUME NEW t \in {"user", "ip"}, EntryLapses(t) PROVE KnownInv'
  BY <1>3, <1>8 DEF EntryLapses, rowVars, checkVars, historyVars
<1>9. ASSUME NEW v \in 0 .. MaxVersion, VerdictLapses(v) PROVE KnownInv'
  BY <1>3, <1>9 DEF VerdictLapses, CacheType, rowVars, checkVars, historyVars
<1>10. CASE UNCHANGED vars
  BY <1>3, <1>10 DEF vars, rowVars, cacheVars, checkVars, historyVars
<1>11. QED BY <1>1, <1>4, <1>5, <1>6, <1>7, <1>8, <1>9, <1>10 DEF Next

----------------------------------------------------------------------------
(* The theorems. *)

\* The invariant of bans holds in every state.
THEOREM BanInvariant == Spec => []Inv
<1>1. Init => Inv
  <2> SUFFICES ASSUME Init PROVE Inv OBVIOUS
  <2> USE BanAssumption
  <2>1. RowType /\ CacheType /\ CheckType
    BY DEF Init, RowType, CacheType, CheckType, Entry, Rest
  <2>2. AdminType BY DEF Init, AdminType, Target
  <2>3. HistoryType /\ faults \in 0 .. MaxFaults
    <3>1. announced \in BOOLEAN BY DEF Init
    <3>2. /\ settled \in [{"user", "ip"} -> {"no", "ban", "lift"}] /\ blind \subseteq Checker
          /\ known \in [Checker -> SUBSET Target] /\ faults \in 0 .. MaxFaults
      BY DEF Init
    <3>3. QED BY <3>1, <3>2 DEF HistoryType
  <2>4. OneRow BY DEF Init, OneRow, Until
  <2>5. AdminInv
    <3>1. Busy = {} BY DEF Init, Busy
    <3>2. QED BY <3>1, FS_EmptySet DEF Init, AdminInv
  <2>6. SettledInv BY DEF Init, SettledInv
  <2>7. KnownInv BY DEF Init, KnownInv
  <2>8. QED BY <2>1, <2>2, <2>3, <2>4, <2>5, <2>6, <2>7 DEF Inv
<1>2. Inv /\ [Next]_vars => Inv'
  <2> SUFFICES ASSUME Inv, [Next]_vars PROVE Inv' OBVIOUS
  <2>1. Types /\ OneRow /\ AdminInv /\ SettledInv /\ KnownInv BY DEF Inv, Types
  <2>2. faults' \in 0 .. MaxFaults
    <3>1. faults' = faults \/ Fault
      BY DEF Next, vars, UserGet, IpGet, CheckStep, UserDel, Query, SetFound, GetVersion, GetVerdict,
             QueryRanges, SetVerdict, UserBanCall, IpBanCall, AdminRead, AdminStep, AdminCut,
             UpsertWrite, LiftWrite, WriteCache, BumpVersion, BanEnds, EntryEnds, EntryLapses,
             VerdictLapses
    <3>2. QED BY <3>1, BanAssumption DEF Fault, Inv
  <2>3. CacheType' BY <2>1, CacheTypeNext
  <2>4. QED BY <2>1, <2>2, <2>3, RowNext, CheckTypeNext, AdminNext, SettledNext, KnownNext DEF Inv
<1>3. QED BY <1>1, <1>2, PTL DEF Spec

\* Every variable keeps its type; whatever administrators do at once, a
\* target has one row at most that is not lifted.
THEOREM TypeCorrect == Spec => []TypeOK
<1>1. Inv => TypeOK
  <2> SUFFICES ASSUME Inv, NEW t \in Target PROVE Cardinality(Unlifted(t)) <= 1
    BY DEF Inv, TypeOK
  <2>1. \A i, j \in Unlifted(t) : i = j BY DEF Inv, OneRow, Unlifted
  <2>2. CASE Unlifted(t) = {} BY <2>2, FS_EmptySet
  <2>3. CASE Unlifted(t) # {}
    <3>1. PICK i \in Unlifted(t) : Unlifted(t) = {i} BY <2>1, <2>3
    <3>2. QED BY <3>1, FS_Singleton
  <2>4. QED BY <2>2, <2>3
<1>2. QED BY <1>1, BanInvariant, PTL

\* A ban or a lift that settled is what the cache says from then on.
THEOREM SettledStaysRight == Spec => []SettledIsRight
<1>1. Inv => SettledIsRight BY DEF Inv, SettledInv, SettledIsRight
<1>2. QED BY <1>1, BanInvariant, PTL

\* No request passes its check against a ban that was in force throughout.
THEOREM BansHold == Spec => []BanHolds
<1>1. Inv => BanHolds BY DEF Inv, KnownInv, BanHolds
<1>2. QED BY <1>1, BanInvariant, PTL
=============================================================================
