-------------------------------- MODULE Bans --------------------------------
(***************************************************************************)
(* Bans of users, addresses and address ranges: ban_service.rs, the admin  *)
(* handlers that impose and lift them, and the checks every request makes  *)
(* (the extractors for the user, platform_mode_guard for the address).     *)
(*                                                                         *)
(* The rows are in Postgres and the answers cached in Redis: one entry per *)
(* user, one per address, and for the ranges a verdict per address under a *)
(* key that holds the version of the range bans.  Every statement and      *)
(* every command is a step, so a check and an administrator interleave     *)
(* between any two of them, and each can fail or be the last.  A behaviour *)
(* is about one user, or about one address and a range that contains it,   *)
(* of which only the targets in `scope' are ever banned.                   *)
(* The sessions a ban of a user also removes are in module Accounts.       *)
(***************************************************************************)
EXTENDS Naturals, FiniteSets

CONSTANTS Checker,     \* requests being checked
          Admin,       \* administrators' requests
          RowId,       \* ids of the rows of one target
          NoRow,
          Scopes,      \* bound: the targets that are banned in one behaviour
          MaxVersion,  \* bound: announcements of a change to the address bans
          MaxFaults    \* bound: failed commands and dropped requests

Target == {"user", "ip", "cidr"}

ASSUME BanAssumption ==
  /\ Scopes \subseteq {{"user"}, {"ip"}, {"cidr"}, {"ip", "cidr"}}
  /\ IsFiniteSet(Checker) /\ IsFiniteSet(Admin) /\ IsFiniteSet(RowId) /\ NoRow \notin RowId
  /\ MaxVersion \in Nat /\ MaxFaults \in Nat


\* banned_until of a row that is not lifted: absent, to come, or past.  A
\* lifted row is "lifted", and so is an id that has not been used.
Until == {"perm", "temp", "past"}

\* A cache entry: absent, "no ban", or a ban with its end.
Entry == {"none", "neg"} \cup Until

VARIABLES
  scope,      \* the targets this behaviour is about
  row,        \* the rows of each target
  cache,      \* the entry of the user and that of the address
  verdict,    \* the address's verdict under each version
  version,    \* ban:ip:version
  pc, found, ver,           \* the checks: position and locals
  place, target, held, end, \* the administrators' calls: position and locals
  faults,     \* failures so far
  announced,  \* history: the ban of the range is in force and was announced
  settled,    \* history: the ban or lift that was cached with no stale answer under way
  known,      \* history: of each check, the settled bans in force since it began
  blind       \* history: checks that could not read the version

rowVars == <<scope, row>>
cacheVars == <<cache, verdict, version>>
checkVars == <<pc, found, ver>>
adminVars == <<place, target, held, end>>
historyVars == <<announced, settled, known, blind>>
vars == <<rowVars, cacheVars, checkVars, adminVars, faults, historyVars>>

\* Between two requests; "allowed" after one that was let through.
Rest == {"idle", "allowed"}

Unlifted(t) == {i \in RowId : row[t][i] \in Until}

RowType == scope \in Scopes /\ row \in [Target -> [RowId -> Until \cup {"lifted"}]]

CacheType ==
  /\ cache \in [{"user", "ip"} -> Entry]
  /\ verdict \in [0 .. MaxVersion -> Entry] /\ version \in 0 .. MaxVersion

CheckType ==
  /\ pc \in [Checker -> Rest \cup {"del", "query", "set", "version", "verdict", "ranges",
                                   "setVerdict"}]
  /\ found \in [Checker -> Entry] /\ ver \in [Checker -> 0 .. MaxVersion]

AdminType ==
  /\ place \in [Admin -> {"idle", "write", "cache", "bump"}]
  /\ target \in [Admin -> Target] /\ held \in [Admin -> RowId \cup {NoRow}]
  /\ end \in [Admin -> {"perm", "temp", "lifted"}]

HistoryType ==
  /\ announced \in BOOLEAN /\ settled \in [{"user", "ip"} -> {"no", "ban", "lift"}]
  /\ known \in [Checker -> SUBSET Target] /\ blind \subseteq Checker

\* Every variable has its type, and a target has at most one row that is not
\* lifted, whatever two administrators do at once.
TypeOK ==
  /\ RowType /\ CacheType /\ CheckType /\ AdminType /\ HistoryType
  /\ faults \in 0 .. MaxFaults
  /\ \A t \in Target : Cardinality(Unlifted(t)) <= 1

Init ==
  /\ scope \in Scopes
  /\ row = [t \in Target |-> [i \in RowId |-> "lifted"]]
  /\ cache = [t \in {"user", "ip"} |-> "none"]
  /\ verdict = [v \in 0 .. MaxVersion |-> "none"] /\ version = 0
  /\ pc = [c \in Checker |-> "idle"] /\ found = [c \in Checker |-> "none"]
  /\ ver = [c \in Checker |-> 0]
  /\ place = [a \in Admin |-> "idle"] /\ target = [a \in Admin |-> "user"]
  /\ held = [a \in Admin |-> NoRow] /\ end = [a \in Admin |-> "lifted"]
  /\ faults = 0
  /\ announced = FALSE /\ settled = [t \in {"user", "ip"} |-> "no"]
  /\ known = [c \in Checker |-> {}] /\ blind = {}

----------------------------------------------------------------------------
(* The rows, and the bans in force *)

Fault == faults < MaxFaults /\ faults' = faults + 1

\* query_active_user_ban, query_exact_ip_ban and, for the range that contains
\* the address, query_cidr_ip_bans with cidr_match_for_ip.
ActiveBan(t) ==
  IF \E i \in RowId : row[t][i] = "perm" THEN "perm"
  ELSE IF \E i \in RowId : row[t][i] = "temp" THEN "temp" ELSE "neg"

InForce(t) == ActiveBan(t) # "neg"

StillInForce(t, i, until) ==
  until \in {"perm", "temp"} \/ \E j \in RowId \ {i} : row[t][j] \in {"perm", "temp"}

\* A write to the rows.  What stops being in force was not in force throughout
\* the checks under way.
SetRow(t, i, until) ==
  /\ row' = [row EXCEPT ![t][i] = until]
  /\ IF StillInForce(t, i, until)
       THEN UNCHANGED <<announced, known>>
       ELSE /\ announced' = (announced /\ t # "cidr")
            /\ known' = [c \in Checker |-> known[c] \ {t}]
  /\ settled' = [s \in DOMAIN settled |->
                  IF s = t /\ InForce(t) # StillInForce(t, i, until) THEN "no" ELSE settled[s]]
  /\ UNCHANGED <<scope, blind>>

\* A temporary ban runs out.
BanEnds(t, i) ==
  /\ row[t][i] = "temp"
  /\ SetRow(t, i, "past")
  /\ UNCHANGED <<cacheVars, checkVars, adminVars, faults>>

\* A cached copy runs out: before the ban does if that was extended since.
Ended(entry) == IF entry = "temp" THEN "past" ELSE entry

EntryEnds ==
  /\ cache' = [t \in DOMAIN cache |-> Ended(cache[t])]
  /\ verdict' = [v \in DOMAIN verdict |-> Ended(verdict[v])]
  /\ <<cache', verdict'>> # <<cache, verdict>>
  /\ UNCHANGED <<rowVars, version, checkVars, adminVars, faults, historyVars>>

\* SET ... EX: every entry has a time to live, of a minute for "no ban", of five
\* at most for a temporary ban, of hours for a permanent one.
EntryLapses(t) ==
  /\ cache[t] # "none"
  /\ cache' = [cache EXCEPT ![t] = "none"]
  /\ UNCHANGED <<rowVars, verdict, version, checkVars, adminVars, faults, historyVars>>

VerdictLapses(v) ==
  /\ verdict[v] # "none"
  /\ verdict' = [verdict EXCEPT ![v] = "none"]
  /\ UNCHANGED <<rowVars, cache, version, checkVars, adminVars, faults, historyVars>>

----------------------------------------------------------------------------
(* Checks: ensure_user_not_banned and ensure_ip_not_banned *)

At(c, there) == pc' = [pc EXCEPT ![c] = there]

\* cache_entry_is_expired: only a ban ends.
Fresh(entry) == entry \notin {"none", "past"}

Return(c, answer) ==
  /\ At(c, answer)
  /\ found' = [found EXCEPT ![c] = "none"]
  /\ ver' = [ver EXCEPT ![c] = 0]

\* Banned, or ban_check_unavailable: nothing of the check matters any more.
Refuse(c) ==
  /\ Return(c, "idle")
  /\ known' = [known EXCEPT ![c] = {}]
  /\ blind' = blind \ {c}
  /\ UNCHANGED <<announced, settled>>

Answer(c, entry) ==
  IF entry = "neg" THEN Return(c, "allowed") /\ UNCHANGED historyVars ELSE Refuse(c)

\* Where the check of an uncached target goes.
GoOn(c, there) == At(c, there) /\ UNCHANGED <<found, ver>>

\* A check begins.  The ban of an address counts from the moment it is stored,
\* that of a range from its announcement, that of a user once it has settled.
Begins(c) ==
  /\ known' = [known EXCEPT ![c] = {t \in scope :
                 /\ InForce(t)
                 /\ t = "cidr" => announced
                 /\ t = "user" => settled[t] = "ban"}]
  /\ blind' = blind \ {c}
  /\ UNCHANGED <<announced, settled>>

\* A request with a session: the extractors, refresh, login and code exchange.
UserRequest(c) == "user" \in scope /\ pc[c] \in Rest

\* Every request, before anything else; in maintenance mode most have already
\* been refused, which changes nothing.
AddressRequest(c) == "user" \notin scope /\ pc[c] \in Rest

\* GET of the user's entry, whatever it says unless it has ended; an error
\* refuses the request (ban_check_unavailable).
UserGet(c) ==
  /\ UserRequest(c)
  /\ \/ cache["user"] \in {"perm", "temp"} /\ Refuse(c) /\ UNCHANGED faults
     \/ Fault /\ Refuse(c)
     \/ cache["user"] = "neg" /\ Begins(c) /\ Return(c, "allowed") /\ UNCHANGED faults
     \/ /\ ~Fresh(cache["user"])
        /\ Begins(c)
        /\ GoOn(c, IF cache["user"] = "past" THEN "del" ELSE "query")
        /\ UNCHANGED faults
  /\ UNCHANGED <<rowVars, cacheVars, adminVars>>

\* Mutant: an entry that has ended is replaced by "no ban".
UserDelNegative(c) ==
  /\ pc[c] = "del"
  /\ cache' = [cache EXCEPT !["user"] = "neg"]
  /\ UNCHANGED faults
  /\ GoOn(c, "query")
  /\ UNCHANGED <<rowVars, verdict, version, adminVars, historyVars>>

\* DEL of an entry that has ended, whatever it is by now; errors are ignored.
UserDel(c) ==
  /\ pc[c] = "del"
  /\ \/ cache' = [cache EXCEPT !["user"] = "none"] /\ UNCHANGED faults
     \/ Fault /\ UNCHANGED cache
  /\ GoOn(c, "query")
  /\ UNCHANGED <<rowVars, verdict, version, adminVars, historyVars>>

\* GET of the address's entry: only a ban is believed.
IpGet(c) ==
  /\ AddressRequest(c)
  /\ \/ cache["ip"] \in {"perm", "temp"} /\ Refuse(c) /\ UNCHANGED faults
     \/ Fault /\ Refuse(c)
     \/ /\ cache["ip"] \notin {"perm", "temp"}
        /\ Begins(c)
        /\ GoOn(c, "query")
        /\ UNCHANGED faults
  /\ UNCHANGED <<rowVars, cacheVars, adminVars>>

CheckedTarget == IF "user" \in scope THEN "user" ELSE "ip"

\* The row.
Query(c) ==
  /\ pc[c] = "query"
  /\ \/ /\ found' = [found EXCEPT ![c] = ActiveBan(CheckedTarget)]
        /\ At(c, "set")
        /\ UNCHANGED <<ver, faults, historyVars>>
     \/ Fault /\ Refuse(c)
  /\ UNCHANGED <<rowVars, cacheVars, adminVars>>

\* SET of what was found, over whatever is there by now; errors are ignored.
\* An address that is not banned itself goes on to the ranges.
SetFound(c) ==
  /\ pc[c] = "set"
  /\ \/ cache' = [cache EXCEPT ![CheckedTarget] = found[c]] /\ UNCHANGED faults
     \/ Fault /\ UNCHANGED cache
  /\ IF CheckedTarget = "ip" /\ found[c] = "neg"
       THEN /\ At(c, "version")
            /\ found' = [found EXCEPT ![c] = "none"]
            /\ UNCHANGED <<ver, historyVars>>
       ELSE Answer(c, found[c])
  /\ UNCHANGED <<rowVars, verdict, version, adminVars>>

\* current_ip_ban_version: an error reads as version 0.
GetVersion(c) ==
  /\ pc[c] = "version"
  /\ \/ ver' = [ver EXCEPT ![c] = version] /\ UNCHANGED <<faults, blind>>
     \/ Fault /\ ver' = [ver EXCEPT ![c] = 0] /\ blind' = blind \cup {c}
  /\ At(c, "verdict")
  /\ UNCHANGED <<rowVars, cacheVars, found, adminVars, announced, settled, known>>

\* GET of the verdict under that version.
GetVerdict(c) ==
  /\ pc[c] = "verdict"
  /\ \/ /\ Fresh(verdict[ver[c]])
        /\ Answer(c, verdict[ver[c]])
        /\ UNCHANGED faults
     \/ /\ ~Fresh(verdict[ver[c]])
        /\ GoOn(c, "ranges")
        /\ UNCHANGED <<faults, historyVars>>
     \/ Fault /\ Refuse(c)
  /\ UNCHANGED <<rowVars, cacheVars, adminVars>>

\* The ranges.
QueryRanges(c) ==
  /\ pc[c] = "ranges"
  /\ \/ /\ found' = [found EXCEPT ![c] = ActiveBan("cidr")]
        /\ At(c, "setVerdict")
        /\ UNCHANGED <<ver, faults, historyVars>>
     \/ Fault /\ Refuse(c)
  /\ UNCHANGED <<rowVars, cacheVars, adminVars>>

\* Mutant: the verdict is stored under the version of the moment.
SetVerdictLatest(c) ==
  /\ pc[c] = "setVerdict"
  /\ verdict' = [verdict EXCEPT ![version] = found[c]]
  /\ UNCHANGED faults
  /\ Answer(c, found[c])
  /\ UNCHANGED <<rowVars, cache, version, adminVars>>

\* SET under the version read before the query.
SetVerdict(c) ==
  /\ pc[c] = "setVerdict"
  /\ \/ verdict' = [verdict EXCEPT ![ver[c]] = found[c]] /\ UNCHANGED faults
     \/ Fault /\ UNCHANGED verdict
  /\ Answer(c, found[c])
  /\ UNCHANGED <<rowVars, cache, version, adminVars>>

----------------------------------------------------------------------------
(* upsert_user_ban, upsert_ip_ban, lift_user_ban and lift_ip_ban *)

AdminAt(a, there) == place' = [place EXCEPT ![a] = there]

AdminReturn(a) ==
  /\ AdminAt(a, "idle")
  /\ target' = [target EXCEPT ![a] = "user"]
  /\ held' = [held EXCEPT ![a] = NoRow]
  /\ end' = [end EXCEPT ![a] = "lifted"]

\* Bound: as many calls about addresses as there are versions left.
Bounded(t) == t # "user" => version + Cardinality({b \in Admin : place[b] # "idle"}) < MaxVersion

\* The row of t that is not lifted, ended or not.
AdminRead(a, t, e) ==
  /\ place[a] = "idle" /\ t \in scope /\ Bounded(t)
  /\ AdminAt(a, "write")
  /\ target' = [target EXCEPT ![a] = t]
  /\ held' = [held EXCEPT ![a] = IF Unlifted(t) = {} THEN NoRow
                                 ELSE CHOOSE i \in RowId : i \in Unlifted(t)]
  /\ end' = [end EXCEPT ![a] = e]
  /\ UNCHANGED <<rowVars, cacheVars, checkVars, faults, historyVars>>

\* The handlers: an end that is given lies in the future.
UserBanCall(a) == \E e \in {"perm", "temp", "lifted"} : AdminRead(a, "user", e)

IpBanCall(a) == \E t \in {"ip", "cidr"}, e \in {"perm", "temp", "lifted"} : AdminRead(a, t, e)

\* An id for a new row: no call holds it.
NewId(t, i) == row[t][i] = "lifted" /\ \A a \in Admin : target[a] = t => held[a] # i

\* Mutant: there is no index over the rows that are not lifted.
AcceptedAlways(t, i) == TRUE

\* The unique indexes over the rows that are not lifted.
Accepted(t, i) == Unlifted(t) \subseteq {i}

AfterWrite(a) ==
  /\ AdminAt(a, IF target[a] = "cidr" THEN "bump" ELSE "cache")
  /\ held' = [held EXCEPT ![a] = NoRow]
  /\ UNCHANGED <<target, end>>

\* A ban: UPDATE of the row that was read, which puts a row lifted since then
\* in force again, or INSERT.  Against the index the call fails.
UpsertWrite(a) ==
  LET t == target[a] IN
  /\ place[a] = "write" /\ end[a] # "lifted"
  /\ \E i \in RowId :
       /\ i = IF held[a] = NoRow THEN CHOOSE j \in RowId : NewId(t, j) ELSE held[a]
       /\ \/ Accepted(t, i) /\ SetRow(t, i, end[a]) /\ AfterWrite(a)
          \/ ~Accepted(t, i) /\ AdminReturn(a) /\ UNCHANGED <<rowVars, historyVars>>
  /\ UNCHANGED <<cacheVars, checkVars, faults>>

\* The lift: UPDATE of the row that was read, if there was one.
LiftWrite(a) ==
  /\ place[a] = "write" /\ end[a] = "lifted"
  /\ IF held[a] = NoRow
       THEN UNCHANGED <<rowVars, historyVars>>
       ELSE SetRow(target[a], held[a], "lifted")
  /\ AfterWrite(a)
  /\ UNCHANGED <<cacheVars, checkVars, faults>>

\* Nobody is about to store the opposite of what the call of a has written.
Undisturbed(a) ==
  LET t == target[a]
      lift == end[a] = "lifted"
  IN /\ InForce(t) = ~lift
     /\ \A c \in Checker : pc[c] = "set" => (found[c] = "neg") = lift
     /\ lift => \A b \in Admin : place[b] = "cache" /\ target[b] = t => end[b] = "lifted"

\* SET of the new ban, or DEL.  Only the DEL of an address may fail unnoticed.
WriteCache(a) ==
  /\ place[a] = "cache"
  /\ \/ /\ cache' = [cache EXCEPT ![target[a]] = IF end[a] = "lifted" THEN "none" ELSE end[a]]
        /\ settled' = [settled EXCEPT ![target[a]] =
                          IF ~Undisturbed(a) THEN @ ELSE IF end[a] = "lifted" THEN "lift" ELSE "ban"]
        /\ UNCHANGED faults
     \/ /\ target[a] = "ip" /\ end[a] = "lifted"
        /\ Fault
        /\ UNCHANGED <<cache, settled>>
  /\ IF target[a] = "user"
       THEN AdminReturn(a)
       ELSE AdminAt(a, "bump") /\ UNCHANGED <<target, held, end>>
  /\ UNCHANGED <<rowVars, verdict, version, checkVars, announced, known, blind>>

\* bump_ip_ban_version: INCR.
BumpVersion(a) ==
  /\ place[a] = "bump"
  /\ version' = version + 1
  /\ announced' = InForce("cidr")
  /\ AdminReturn(a)
  /\ UNCHANGED <<rowVars, cache, verdict, checkVars, faults, settled, known, blind>>

\* A step fails, or the request is dropped: what was written stays.
AdminCut(a) ==
  /\ place[a] # "idle"
  /\ Fault
  /\ AdminReturn(a)
  /\ UNCHANGED <<rowVars, cacheVars, checkVars, historyVars>>

----------------------------------------------------------------------------
CheckStep(c) ==
  \/ UserDel(c) \/ Query(c) \/ SetFound(c)
  \/ GetVersion(c) \/ GetVerdict(c) \/ QueryRanges(c) \/ SetVerdict(c)

AdminStep(a) == UpsertWrite(a) \/ LiftWrite(a) \/ WriteCache(a) \/ BumpVersion(a)

Next ==
  \/ \E c \in Checker : UserGet(c) \/ IpGet(c) \/ CheckStep(c)
  \/ \E a \in Admin :
       \/ UserBanCall(a) \/ IpBanCall(a)
       \/ AdminStep(a) \/ AdminCut(a)
  \/ \E t \in Target, i \in RowId : BanEnds(t, i)
  \/ EntryEnds
  \/ \E t \in {"user", "ip"} : EntryLapses(t)
  \/ \E v \in 0 .. MaxVersion : VerdictLapses(v)

Spec == Init /\ [][Next]_vars

----------------------------------------------------------------------------
(* Properties. *)

\* A request passes only if at some moment of its check there was no ban: an
\* address ban that is stored, a range ban that is announced and a user ban that
\* has settled hold for every check that begins after it, whatever is cached.
\* Only a check that could not read the version may take its verdict on the
\* ranges from before the first ban.
BanHolds ==
  \A c \in Checker :
    pc[c] = "allowed" => known[c] \subseteq (IF c \in blind THEN {"cidr"} ELSE {})

\* A check stores what it read before a ban or a lift on top of what the ban or
\* the lift has cached, for a minute (no ban) or for hours (a ban).  It takes a
\* check, or a ban being stored, that was under way at that moment: otherwise
\* the entry agrees with the rows from then on.
SettledIsRight ==
  \A t \in {"user", "ip"} :
    /\ settled[t] = "ban" => cache[t] # "neg"
    /\ settled[t] = "lift" => cache[t] \notin {"perm", "temp"}
=============================================================================
