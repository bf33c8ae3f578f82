--------------------------- MODULE SessionTokens ---------------------------
(***************************************************************************)
(* The refresh tokens of one user: issued at login, rotated by             *)
(* POST /auth/refresh, wiped by logout, by account deletion and when a     *)
(* rotated token is presented again after its grace period.                *)
(*                                                                         *)
(* refresh_access_token runs in a READ COMMITTED transaction: its reads    *)
(* see what is committed and take no lock; its UPDATE of the old row takes *)
(* a row lock until the commit; its INSERT is invisible until then.  A     *)
(* wipe is one DELETE: it removes the rows that were committed when it     *)
(* started, after waiting for those that are locked.                       *)
(*                                                                         *)
(* An access token and the refresh token issued with it share an id, but   *)
(* a refresh takes only the user from the access token it is called with:  *)
(* any access token of the user goes with any of its refresh tokens.       *)
(***************************************************************************)
EXTENDS Naturals, FiniteSets

CONSTANTS Token,    \* ids of issued token pairs
          Request,  \* concurrent refresh and logout calls
          NoToken, NoRequest

ASSUME TokenAssumption == NoToken \notin Token /\ NoRequest \notin Request

VARIABLES
  present,     \* committed rows of refresh_tokens
  replacedAt,  \* "no", "recent" (less than 30 s ago) or "old"
  replacedBy,  \* committed replaced_by
  given,       \* ids of the pairs that were given out
  rowLock,     \* the transaction holding the row lock
  blacklist,   \* the Redis entry of each access token, or that it got none
  pc,          \* where each call stands
  old,         \* the refresh token it presented
  access,      \* the access token it presented
  seenBy,      \* old.replaced_by as read
  new,         \* the token it inserts
  wipe,        \* the rows its DELETE is to remove
  family,      \* history: the login a token descends from
  dead,        \* history: the logins that were wiped
  escaped      \* history: those of them with a refresh under way at that time

tokenRowVars == <<present, replacedAt, replacedBy, given>>
tokenCallVars == <<pc, old, access, seenBy, new, wipe>>
histVars == <<family, dead, escaped>>
tokenVars == <<tokenRowVars, rowLock, blacklist, tokenCallVars, histVars>>

Age == {"no", "recent", "old"}
Refreshing == {"read", "revoked", "inserted", "rotated"}

\* Every variable has its type; a row that is visible was issued, and a row
\* lock belongs to a transaction that rotates that row.
TokenTypeOK ==
  /\ present \subseteq given /\ given \subseteq Token
  /\ replacedAt \in [Token -> Age]
  /\ replacedBy \in [Token -> Token \cup {NoToken}]
  /\ rowLock \in [Token -> Request \cup {NoRequest}]
  /\ blacklist \in [Token -> {"no", "revoked", "refused"}]
  /\ pc \in [Request -> Refreshing \cup {"idle", "reuse", "wiping", "leaving"}]
  /\ old \in [Request -> Token \cup {NoToken}]
  /\ access \in [Request -> Token \cup {NoToken}]
  /\ seenBy \in [Request -> Token \cup {NoToken}]
  /\ new \in [Request -> Token \cup {NoToken}]
  /\ wipe \in [Request -> SUBSET Token]
  /\ family \in [Token -> Token]
  /\ dead \subseteq Token /\ escaped \subseteq Token
  /\ \A t \in Token : rowLock[t] # NoRequest => pc[rowLock[t]] = "rotated" /\ old[rowLock[t]] = t

TokenInit ==
  /\ present = {} /\ given = {}
  /\ blacklist = [t \in Token |-> "no"]
  /\ replacedAt = [t \in Token |-> "no"]
  /\ replacedBy = [t \in Token |-> NoToken]
  /\ rowLock = [t \in Token |-> NoRequest]
  /\ pc = [r \in Request |-> "idle"]
  /\ old = [r \in Request |-> NoToken] /\ access = [r \in Request |-> NoToken]
  /\ seenBy = [r \in Request |-> NoToken]
  /\ new = [r \in Request |-> NoToken]
  /\ wipe = [r \in Request |-> {}]
  /\ family = [t \in Token |-> t]
  /\ dead = {} /\ escaped = {}

\* Ids that are neither given out nor in a transaction.
Unissued == Token \ (given \cup {new[q] : q \in Request})

----------------------------------------------------------------------------
\* issue_tokens_for_user: a login, a sign-up or an exchanged code.
IssueTokens(t) ==
  /\ t \in Unissued
  /\ given' = given \cup {t}
  /\ present' = present \cup {t}
  /\ UNCHANGED <<replacedAt, replacedBy, rowLock, blacklist, tokenCallVars, histVars>>

\* refresh_access_token takes the user from access token a, expired and revoked
\* ones too, reads the user's rows and finds the refresh token presented.  No
\* such row, or only an expired one: 401, and the transaction, with the DELETE
\* of the expired row in it, is dropped.  An expired row is thus one that nobody
\* can present any more; that it is need not be recorded.  A reuse has no use for
\* the access token.
RefreshRead(r, t, a) ==
  /\ pc[r] = "idle"
  /\ t \in present /\ a \in given
  /\ old' = [old EXCEPT ![r] = t]
  /\ access' = [access EXCEPT ![r] = IF replacedAt[t] = "old" THEN NoToken ELSE a]
  /\ seenBy' = [seenBy EXCEPT ![r] = replacedBy[t]]
  /\ pc' = [pc EXCEPT ![r] = IF replacedAt[t] = "old" THEN "reuse" ELSE "read"]
  /\ UNCHANGED <<tokenRowVars, rowLock, blacklist, new, wipe, histVars>>

\* Mutant: the blacklist is written after the commit, if the call gets there.
RefreshRevokeLater(r) ==
  /\ pc[r] = "read"
  /\ pc' = [pc EXCEPT ![r] = "revoked"]
  /\ UNCHANGED <<tokenRowVars, rowLock, blacklist, old, access, seenBy, new, wipe, histVars>>

\* revoke_token of the access token presented, left out when it has expired; an
\* error is only logged.
RefreshRevoke(r) ==
  /\ pc[r] = "read"
  /\ \/ blacklist' = [blacklist EXCEPT ![access[r]] = "revoked"]
     \/ blacklist' = [blacklist EXCEPT ![access[r]] = IF @ = "no" THEN "refused" ELSE @]
  /\ pc' = [pc EXCEPT ![r] = "revoked"]
  /\ UNCHANGED <<tokenRowVars, rowLock, old, access, seenBy, new, wipe, histVars>>

\* INSERT of the new row, not visible before the commit.
RefreshInsert(r, t) ==
  /\ pc[r] = "revoked"
  /\ t \in Unissued
  /\ new' = [new EXCEPT ![r] = t]
  /\ pc' = [pc EXCEPT ![r] = "inserted"]
  /\ UNCHANGED <<tokenRowVars, rowLock, blacklist, old, access, seenBy, wipe, histVars>>

\* UPDATE of the old row when no successor was seen: waits for its lock.
RefreshRotate(r) ==
  /\ pc[r] = "inserted"
  /\ seenBy[r] = NoToken
  /\ old[r] \in present
  /\ rowLock[old[r]] = NoRequest
  /\ rowLock' = [rowLock EXCEPT ![old[r]] = r]
  /\ pc' = [pc EXCEPT ![r] = "rotated"]
  /\ UNCHANGED <<tokenRowVars, blacklist, old, access, seenBy, new, wipe, histVars>>

\* Mutant: the transaction is left open, its row lock with it.
ForgetKeepingLock(r) ==
  /\ pc' = [pc EXCEPT ![r] = "idle"]
  /\ old' = [old EXCEPT ![r] = NoToken]
  /\ access' = [access EXCEPT ![r] = NoToken]
  /\ seenBy' = [seenBy EXCEPT ![r] = NoToken]
  /\ new' = [new EXCEPT ![r] = NoToken]
  /\ wipe' = [wipe EXCEPT ![r] = {}]
  /\ UNCHANGED rowLock

\* The call is over: nothing of its transaction is left.
Forget(r) ==
  /\ pc' = [pc EXCEPT ![r] = "idle"]
  /\ old' = [old EXCEPT ![r] = NoToken]
  /\ access' = [access EXCEPT ![r] = NoToken]
  /\ seenBy' = [seenBy EXCEPT ![r] = NoToken]
  /\ new' = [new EXCEPT ![r] = NoToken]
  /\ wipe' = [wipe EXCEPT ![r] = {}]
  /\ rowLock' = [t \in Token |-> IF rowLock[t] = r THEN NoRequest ELSE rowLock[t]]

\* COMMIT, with the old row rotated, or untouched when it had a successor.
RefreshCommit(r) ==
  /\ \/ /\ pc[r] = "rotated"
        /\ replacedAt' = [replacedAt EXCEPT ![old[r]] = "recent"]
        /\ replacedBy' = [replacedBy EXCEPT ![old[r]] = new[r]]
     \/ /\ pc[r] = "inserted" /\ seenBy[r] # NoToken
        /\ UNCHANGED <<replacedAt, replacedBy>>
  /\ present' = present \cup {new[r]}
  /\ given' = given \cup {new[r]}
  /\ family' = [family EXCEPT ![new[r]] = family[old[r]]]
  /\ Forget(r)
  /\ UNCHANGED <<blacklist, dead, escaped>>

\* An error, a dropped connection, an UPDATE that finds its row gone: roll back.
CallAborts(r) ==
  /\ pc[r] # "idle"
  /\ Forget(r)
  /\ UNCHANGED <<tokenRowVars, blacklist, histVars>>

\* The DELETE of all of the user's rows begins: in logout, called with access
\* token a (a revoked one too: is_revoked fails open), or in delete_account and
\* the admin's logout, which pass none on ...
LogoutBegin(r, a) ==
  /\ pc[r] = "idle"
  /\ a \in given
  /\ wipe' = [wipe EXCEPT ![r] = present]
  /\ \/ pc' = [pc EXCEPT ![r] = "leaving"] /\ access' = [access EXCEPT ![r] = a]
     \/ pc' = [pc EXCEPT ![r] = "wiping"] /\ UNCHANGED access
  /\ UNCHANGED <<tokenRowVars, rowLock, blacklist, old, seenBy, new, histVars>>

\* ... and when a rotated token comes back after the grace period.
ReuseDetected(r) ==
  /\ pc[r] = "reuse"
  /\ wipe' = [wipe EXCEPT ![r] = present]
  /\ pc' = [pc EXCEPT ![r] = "wiping"]
  /\ UNCHANGED <<tokenRowVars, rowLock, blacklist, old, access, seenBy, new, histVars>>

\* Deleted rows are gone and references to them are set to NULL (the foreign
\* key's ON DELETE SET NULL).
DeleteRows(gone) ==
  /\ present' = present \ gone
  /\ replacedBy' = [t \in Token |-> IF replacedBy[t] \in gone THEN NoToken
                                                            ELSE replacedBy[t]]

\* Bookkeeping for the properties: the wiped logins, and those of them for
\* which a refresh overlapped the DELETE.
Bury(r) ==
  LET wiped == {family[t] : t \in wipe[r]}
      racing == {family[t] : t \in present \ wipe[r]}
                  \cup {family[old[q]] : q \in {p \in Request : pc[p] \in Refreshing}}
  IN /\ dead' = dead \cup wiped
     /\ escaped' = (escaped \ wiped) \cup (wiped \cap racing)

\* Mutant: only tokens that were not rotated yet are deleted.
WipeActiveOnly(r) ==
  /\ pc[r] \in {"wiping", "leaving"}
  /\ \A t \in wipe[r] : rowLock[t] = NoRequest
  /\ DeleteRows({t \in wipe[r] : replacedAt[t] = "no"})
  /\ Bury(r)
  /\ \/ UNCHANGED blacklist
     \/ pc[r] = "leaving" /\ blacklist' = [blacklist EXCEPT ![access[r]] = "revoked"]
  /\ Forget(r)
  /\ UNCHANGED <<replacedAt, given, family>>

\* The DELETE ends and is committed, once none of its rows is locked; logout
\* then puts its access token on the blacklist, if Redis takes it.
Wipe(r) ==
  /\ pc[r] \in {"wiping", "leaving"}
  /\ \A t \in wipe[r] : rowLock[t] = NoRequest
  /\ DeleteRows(wipe[r])
  /\ Bury(r)
  /\ \/ UNCHANGED blacklist
     \/ pc[r] = "leaving" /\ blacklist' = [blacklist EXCEPT ![access[r]] = "revoked"]
  /\ Forget(r)
  /\ UNCHANGED <<replacedAt, given, family>>

\* The admin's hard delete of a single row.
HardDeleteToken(t) ==
  /\ t \in present
  /\ rowLock[t] = NoRequest
  /\ \A x \in present : replacedBy[x] = t => rowLock[x] = NoRequest
  /\ DeleteRows({t})
  /\ UNCHANGED <<replacedAt, given, rowLock, blacklist, tokenCallVars, histVars>>

\* Thirty seconds after a rotation its grace period is over.
GraceEnds(t) ==
  /\ replacedAt[t] = "recent"
  /\ replacedAt' = [replacedAt EXCEPT ![t] = "old"]
  /\ UNCHANGED <<present, replacedBy, given, rowLock, blacklist, tokenCallVars, histVars>>

----------------------------------------------------------------------------
TokenStep(r) ==
  \/ \E t, a \in Token : RefreshRead(r, t, a)
  \/ RefreshRevoke(r) \/ RefreshRotate(r) \/ RefreshCommit(r) \/ CallAborts(r)
  \/ \E t \in Token : RefreshInsert(r, t)
  \/ (\E a \in Token : LogoutBegin(r, a)) \/ ReuseDetected(r) \/ Wipe(r)

TokenNext ==
  \/ \E r \in Request : TokenStep(r)
  \/ \E t \in Token : IssueTokens(t) \/ HardDeleteToken(t) \/ GraceEnds(t)

TokenSpec == TokenInit /\ [][TokenNext]_tokenVars
----------------------------------------------------------------------------
(* Properties. *)

\* A wiped login stays out: none of its rows is left, rotated ones included,
\* from which a later refresh could issue a pair - unless a refresh of that
\* login overlapped the wipe.
OnlyOverlapSurvives == \A t \in present : family[t] \in dead => family[t] \in escaped

\* Whoever obtains a new pair has given up the access token it called with: that
\* token is on the blacklist before the pair exists, unless Redis refused the
\* entry or it had expired, and it does not come off again, whatever aborts,
\* logouts and retries overlap.  (It need not be the access token of the pair
\* that is exchanged.)
RefreshRevokesAccess ==
  [][/\ \A r \in Request : new[r] \in given' \ given => blacklist[access[r]] # "no"
     /\ \A a \in Token : blacklist[a] # "no" => blacklist'[a] # "no"]_tokenVars
=============================================================================
