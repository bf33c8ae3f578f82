------------------------------- MODULE SignUp -------------------------------
(***************************************************************************)
(* Signing in and signing up.  The OAuth callback leaves the outcome of a  *)
(* Google login under a one-time code: a session when the account exists,  *)
(* a sign-up ticket when it does not.  The client exchanges the code, and  *)
(* with a ticket it completes the sign-up by choosing a name.  Completions *)
(* of one ticket are kept apart by a Redis lock that lapses, and answered  *)
(* alike by a cached result.  Codes, tickets, locks and results are Redis  *)
(* keys with a time to live; accounts are rows of the users table.         *)
(***************************************************************************)
EXTENDS Naturals, FiniteSets

CONSTANTS Google,     \* Google identities
          Name,       \* normalised usernames
          Ticket, Code,
          Session,    \* token pairs issued at registration
          Exchange,   \* concurrent requests to exchange_otc
          Call,       \* concurrent requests to signup_complete
          None,
          Orphan,     \* the lock value of a request that is over
          MaxFaults   \* bound on Redis failures

ASSUME SignUpAssumption ==
  /\ {None, Orphan} \cap (Name \cup Call \cup Google \cup Ticket \cup Code \cup Session) = {}
  /\ None # Orphan
  /\ {"unused", "gone"} \cap (Google \cup Ticket) = {}
  /\ Google \cap Ticket = {}
  /\ IsFiniteSet(Session)
  /\ MaxFaults \in Nat

VARIABLES
  name,       \* users: the username of a Google identity's row, None without a row
  ticket,     \* signup:ticket:<t>: the identity it stands for, "unused" or "gone"
  result,     \* signup:result:<t>: the session it answers
  lock,       \* signup:lock:<t>: the request whose value it holds
  code,       \* otc:<c>: an identity (AuthSuccess) or a ticket (SignupRequired), "unused" or "gone"
  exch,       \* the exchange requests: [at, code, got]
  call,       \* the completion requests: [at, ticket, name, who, resp]
  faults,     \* Redis failures so far
  known,      \* tickets given out to a client
  spent,      \* history: how many exchanges were answered with a code
  issued,     \* sessions issued
  answers,    \* history: the sessions answered for each ticket
  strained    \* history: tickets whose lock lapsed under its holder, or that met a Redis failure

store == <<name, ticket, result, lock, code>>
redis == <<faults, strained>>
told == <<known, spent, answers>>
vars == <<store, exch, call, redis, told, issued>>

Key == {"unused", "gone"}
Registering == {"check", "find", "insert", "update"}
Places == Registering \cup {"idle", "lock", "poll", "reread", "read", "issue", "keep", "spend", "unlock"}

\* Every variable has its type; a request that registers somebody has read
\* who from the ticket, and one that caches a result has a session to cache.
TypeOK ==
  /\ name \in [Google -> Name \cup {None}]
  /\ DOMAIN ticket = Ticket /\ \A t \in Ticket : ticket[t] \in Key \/ ticket[t] \in Google
  /\ result \in [Ticket -> Session \cup {None}]
  /\ lock \in [Ticket -> Call \cup {None, Orphan}]
  /\ DOMAIN code = Code /\ \A c \in Code : code[c] \in Key \/ code[c] \in Google \cup Ticket
  /\ exch \in [Exchange -> [at : {"idle", "delete"}, code : Code \cup {None},
                            got : Google \cup Ticket \cup {None}]]
  /\ call \in [Call -> [at : Places, ticket : Ticket \cup {None}, name : Name \cup {None},
                        who : Google \cup {None}, resp : Session \cup {None}]]
  /\ \A k \in Call : /\ call[k].at \in Registering => call[k].who \in Google
                     /\ call[k].at \in {"keep", "spend"} => call[k].resp \in issued
  /\ faults \in 0..MaxFaults
  /\ known \subseteq Ticket /\ strained \subseteq Ticket
  /\ spent \in [Code -> Nat]
  /\ issued \subseteq Session
  /\ answers \in [Ticket -> SUBSET issued]

NoExchange == [at |-> "idle", code |-> None, got |-> None]
NoCall == [at |-> "idle", ticket |-> None, name |-> None, who |-> None, resp |-> None]

Init ==
  /\ name = [g \in Google |-> None]
  /\ ticket = [t \in Ticket |-> "unused"]
  /\ result = [t \in Ticket |-> None]
  /\ lock = [t \in Ticket |-> None]
  /\ code = [c \in Code |-> "unused"]
  /\ exch = [e \in Exchange |-> NoExchange]
  /\ call = [k \in Call |-> NoCall]
  /\ faults = 0
  /\ known = {} /\ issued = {} /\ strained = {}
  /\ spent = [c \in Code |-> 0]
  /\ answers = [t \in Ticket |-> {}]

\* A Redis command of a request for ticket t fails.
RedisFails(t) ==
  /\ faults < MaxFaults
  /\ faults' = faults + 1
  /\ strained' = strained \cup {t}

RedisAnswers == UNCHANGED redis

----------------------------------------------------------------------------
(* google_callback: both keys it writes are fresh, so it is one step. *)

\* login_existing_user finds the row and issues a session, left under a code.
CallbackLogin(g, c) ==
  /\ name[g] # None
  /\ code[c] = "unused"
  /\ code' = [code EXCEPT ![c] = g]
  /\ UNCHANGED <<name, ticket, result, lock, exch, call, redis, told, issued>>

\* No row: the identity is kept under a ticket, and the ticket under a code.
CallbackSignup(g, c, t) ==
  /\ name[g] = None
  /\ code[c] = "unused" /\ ticket[t] = "unused"
  /\ ticket' = [ticket EXCEPT ![t] = g]
  /\ code' = [code EXCEPT ![c] = t]
  /\ UNCHANGED <<name, result, lock, exch, call, redis, told, issued>>

\* The code is stored with a time to live of 60 s.
CodeLapses(c) ==
  /\ code[c] \notin Key
  /\ code' = [code EXCEPT ![c] = "gone"]
  /\ UNCHANGED <<name, ticket, result, lock, exch, call, redis, told, issued>>

----------------------------------------------------------------------------
(* exchange_otc *)

\* consume_otc's GET; a code that is not there is answered 400.
ExchangeGet(e, c) ==
  /\ exch[e].at = "idle"
  /\ code[c] \notin Key
  /\ exch' = [exch EXCEPT ![e] = [at |-> "delete", code |-> c, got |-> code[c]]]
  /\ UNCHANGED <<store, call, redis, told, issued>>

\* The payload goes to the client.
Answer(e) ==
  /\ spent' = [spent EXCEPT ![exch[e].code] = @ + 1]
  /\ known' = known \cup ({exch[e].got} \cap Ticket)

\* consume_otc's DEL and the answer; a banned user gets 403 instead.
ExchangeDelete(e) ==
  /\ exch[e].at = "delete"
  /\ code' = [code EXCEPT ![exch[e].code] = "gone"]
  /\ exch' = [exch EXCEPT ![e] = NoExchange]
  /\ \/ Answer(e)
     \/ exch[e].got \in Google /\ UNCHANGED <<spent, known>>
  /\ UNCHANGED <<name, ticket, result, lock, call, redis, answers, issued>>

\* The DEL fails, or the client goes away before it: 500 or no answer at all.
ExchangeBreaks(e) ==
  /\ exch[e].at = "delete"
  /\ exch' = [exch EXCEPT ![e] = NoExchange]
  /\ UNCHANGED <<store, call, redis, told, issued>>

----------------------------------------------------------------------------
(* signup_complete *)

Goto(k, place) == call' = [call EXCEPT ![k].at = place]

\* On to where the name and the identity are no longer needed.
Proceed(k, place, session) ==
  call' = [call EXCEPT ![k] = [NoCall EXCEPT !.at = place, !.ticket = call[k].ticket, !.resp = session]]

\* The inner block ends, with a session or an error; the lock is next.
Conclude(k, session) == Proceed(k, "unlock", session)

\* The request is over; a session goes to the client.
Return(k, session) ==
  /\ call' = [call EXCEPT ![k] = NoCall]
  /\ answers' = [answers EXCEPT ![call[k].ticket] = @ \cup ({session} \ {None})]
  /\ UNCHANGED <<known, spent>>

\* Validation and limits passed and no cached result was read.
SignupStart(k, t, n) ==
  /\ call[k].at = "idle"
  /\ t \in known
  /\ \/ result[t] = None /\ RedisAnswers
     \/ result[t] # None /\ RedisFails(t)
  /\ call' = [call EXCEPT ![k] = [NoCall EXCEPT !.at = "lock", !.ticket = t, !.name = n]]
  /\ UNCHANGED <<store, exch, told, issued>>

\* A cached result is the answer.
SignupReplay(t) ==
  /\ t \in known
  /\ result[t] # None
  /\ answers' = [answers EXCEPT ![t] = @ \cup {result[t]}]
  /\ UNCHANGED <<store, exch, call, redis, known, spent, issued>>

\* Mutant: SET without NX.
SignupLockOver(k) ==
  /\ call[k].at = "lock"
  /\ lock' = [lock EXCEPT ![call[k].ticket] = k]
  /\ Goto(k, "reread")
  /\ UNCHANGED <<name, ticket, result, code, exch, redis, told, issued>>

\* SET NX EX 15.  Without a connection the request goes on unlocked; an error
\* of the command itself counts as not acquired, whether or not it was run.
SignupLock(k) ==
  LET t == call[k].ticket IN
  /\ call[k].at = "lock"
  /\ \/ /\ lock[t] = None
        /\ lock' = [lock EXCEPT ![t] = k]
        /\ Goto(k, "reread")
        /\ RedisAnswers
     \/ /\ lock[t] # None
        /\ Proceed(k, "poll", None)
        /\ RedisAnswers
        /\ UNCHANGED lock
     \/ /\ RedisFails(t)
        /\ Goto(k, "reread")
        /\ UNCHANGED lock
     \/ /\ RedisFails(t)
        /\ Proceed(k, "poll", None)
        /\ lock' \in {lock, [lock EXCEPT ![t] = IF @ = None THEN Orphan ELSE @]}
  /\ UNCHANGED <<name, ticket, result, code, exch, told, issued>>

\* Eight looks at the result, 125 ms apart, then 429.
SignupPoll(k) ==
  /\ call[k].at = "poll"
  /\ Return(k, result[call[k].ticket])
  /\ UNCHANGED <<store, exch, redis, issued>>

\* Mutant: the result is not looked at again under the lock.
SignupReReadSkipped(k) ==
  /\ call[k].at = "reread"
  /\ Goto(k, "read")
  /\ UNCHANGED <<store, exch, redis, told, issued>>

\* The result again, now under the lock; a failed read counts as no result.
SignupReRead(k) ==
  LET t == call[k].ticket IN
  /\ call[k].at = "reread"
  /\ \/ /\ IF result[t] # None THEN Conclude(k, result[t]) ELSE Goto(k, "read")
        /\ RedisAnswers
     \/ /\ RedisFails(t)
        /\ Goto(k, "read")
  /\ UNCHANGED <<store, exch, told, issued>>

\* Mutant: a missing ticket is not refused.
SignupReadUnchecked(k) ==
  LET t == call[k].ticket IN
  /\ call[k].at = "read"
  /\ call' = [call EXCEPT ![k].at = "check",
                          ![k].who = IF ticket[t] \in Google THEN ticket[t] ELSE None]
  /\ UNCHANGED <<store, exch, redis, told, issued>>

\* read_signup_ticket; missing, lapsed or unreadable: 401.
SignupRead(k) ==
  LET t == call[k].ticket IN
  /\ call[k].at = "read"
  /\ \/ /\ ticket[t] \in Google
        /\ call' = [call EXCEPT ![k].at = "check", ![k].who = ticket[t]]
        /\ RedisAnswers
     \/ /\ ticket[t] \notin Google
        /\ Conclude(k, None)
        /\ RedisAnswers
     \/ /\ RedisFails(t)
        /\ Conclude(k, None)
  /\ UNCHANGED <<store, exch, told, issued>>

\* username_exists_case_insensitive: 409 when any row has the name.
RegisterCheck(k) ==
  /\ call[k].at = "check"
  /\ IF \E g \in Google : name[g] = call[k].name THEN Conclude(k, None) ELSE Goto(k, "find")
  /\ UNCHANGED <<store, exch, redis, told, issued>>

\* The row of the Google identity, if there is one by now.
RegisterFind(k) ==
  /\ call[k].at = "find"
  /\ Goto(k, IF name[call[k].who] = None THEN "insert" ELSE "update")
  /\ UNCHANGED <<store, exch, redis, told, issued>>

\* INSERT or UPDATE.  The unique indexes on the name and on google_id refuse
\* what the two reads could not know.
RegisterWrite(k) ==
  LET c == call[k] IN
  /\ c.at \in {"insert", "update"}
  /\ IF \/ \E g \in Google \ {c.who} : name[g] = c.name
        \/ c.at = "insert" /\ name[c.who] # None
       THEN Conclude(k, None) /\ UNCHANGED name
       ELSE Proceed(k, "issue", None) /\ name' = [name EXCEPT ![c.who] = c.name]
  /\ UNCHANGED <<ticket, result, lock, code, exch, redis, told, issued>>

\* issue_tokens_for_user; on an error the account stays and the answer is 500.
RegisterIssue(k) ==
  /\ call[k].at = "issue"
  /\ \/ \E s \in Session \ issued :
          /\ issued' = issued \cup {s}
          /\ Proceed(k, "keep", s)
     \/ Conclude(k, None) /\ UNCHANGED issued
  /\ UNCHANGED <<store, exch, redis, told>>

\* write_signup_result; an error is only logged.
SignupKeep(k) ==
  LET t == call[k].ticket IN
  /\ call[k].at = "keep"
  /\ Goto(k, "spend")
  /\ \/ result' = [result EXCEPT ![t] = call[k].resp] /\ RedisAnswers
     \/ RedisFails(t) /\ UNCHANGED result
  /\ UNCHANGED <<name, ticket, lock, code, exch, told, issued>>

\* delete_signup_ticket; an error is ignored.
SignupSpend(k) ==
  LET t == call[k].ticket IN
  /\ call[k].at = "spend"
  /\ Goto(k, "unlock")
  /\ \/ ticket' = [ticket EXCEPT ![t] = "gone"] /\ RedisAnswers
     \/ RedisFails(t) /\ UNCHANGED ticket
  /\ UNCHANGED <<name, result, lock, code, exch, told, issued>>

\* A request that ends without releasing its lock leaves it to its time to live.
Abandoned(k) == [t \in Ticket |-> IF lock[t] = k THEN Orphan ELSE lock[t]]

\* Mutant: a plain DEL of the lock.
SignupUnlockAny(k) ==
  /\ call[k].at = "unlock"
  /\ Return(k, call[k].resp)
  /\ lock' = [lock EXCEPT ![call[k].ticket] = None]
  /\ UNCHANGED <<name, ticket, result, code, exch, redis, issued>>

\* Delete the lock if it still holds this request's value, and answer.
SignupUnlock(k) ==
  LET t == call[k].ticket IN
  /\ call[k].at = "unlock"
  /\ Return(k, call[k].resp)
  /\ \/ /\ lock' = [lock EXCEPT ![t] = IF @ = k THEN None ELSE @]
        /\ RedisAnswers
     \/ /\ lock[t] = k
        /\ RedisFails(t)
        /\ lock' = Abandoned(k)
  /\ UNCHANGED <<name, ticket, result, code, exch, issued>>

\* The client goes away and its handler is dropped at an await, or the API
\* process dies: no answer, and the lock stays.
SignupDropped(k) ==
  /\ call[k].at # "idle"
  /\ call' = [call EXCEPT ![k] = NoCall]
  /\ lock' = Abandoned(k)
  /\ UNCHANGED <<name, ticket, result, code, exch, redis, told, issued>>

SignupStep(k) ==
  \/ SignupLock(k) \/ SignupPoll(k) \/ SignupReRead(k) \/ SignupRead(k)
  \/ RegisterCheck(k) \/ RegisterFind(k) \/ RegisterWrite(k) \/ RegisterIssue(k)
  \/ SignupKeep(k) \/ SignupSpend(k) \/ SignupUnlock(k)

----------------------------------------------------------------------------
(* Keys that lapse *)

\* After 15 s; the request that took it may still be running.
LockLapses(t) ==
  /\ lock[t] # None
  /\ strained' = IF lock[t] = Orphan THEN strained ELSE strained \cup {t}
  /\ lock' = [lock EXCEPT ![t] = None]
  /\ UNCHANGED <<name, ticket, result, code, exch, call, faults, told, issued>>

TicketLapses(t) ==
  /\ ticket[t] \in Google
  /\ ticket' = [ticket EXCEPT ![t] = "gone"]
  /\ UNCHANGED <<name, result, lock, code, exch, call, redis, told, issued>>

\* A result lives as long as a ticket and is written later, so it goes later.
ResultLapses(t) ==
  /\ result[t] # None
  /\ ticket[t] = "gone"
  /\ result' = [result EXCEPT ![t] = None]
  /\ UNCHANGED <<name, ticket, lock, code, exch, call, redis, told, issued>>

Next ==
  \/ \E g \in Google, c \in Code : CallbackLogin(g, c) \/ \E t \in Ticket : CallbackSignup(g, c, t)
  \/ \E c \in Code : CodeLapses(c)
  \/ \E e \in Exchange : ExchangeDelete(e) \/ ExchangeBreaks(e) \/ \E c \in Code : ExchangeGet(e, c)
  \/ \E k \in Call : SignupStep(k) \/ SignupDropped(k)
  \/ \E k \in Call, t \in Ticket, n \in Name : SignupStart(k, t, n)
  \/ \E t \in Ticket : SignupReplay(t) \/ LockLapses(t) \/ TicketLapses(t) \/ ResultLapses(t)

Spec == Init /\ [][Next]_vars

----------------------------------------------------------------------------
(* Properties *)

\* Whatever the client repeats or sends twice at once, all its successful
\* completions of one ticket carry the same session, unless Redis failed or
\* the 15 s lock ran out under its holder.
OneSessionPerTicket ==
  \A t \in Ticket \ strained : Cardinality(answers[t]) <= 1

\* What was answered is final: once a completion of a ticket has been answered,
\* no request for that ticket changes an account any more, and the name the
\* client was told stands (same proviso).
AnsweredIsFinal ==
  [][\A k \in Call :
       LET t == call[k].ticket IN
       call[k].at \in {"insert", "update"} /\ t \notin strained /\ answers[t] # {}
         => call'[k].at # "issue"]_vars

\* What consume_otc's comments say of a one-time code, "get and delete
\* atomically" and "single-use": it is answered once.
CodeSingleUse == \A c \in Code : spent[c] <= 1

\* A request that overran its lock does not release the lock of the next
\* one: a lock goes when its own holder finishes or when it lapses.
ReleasedByHolder ==
  [][\A t \in Ticket : lock[t] \in Call /\ lock'[t] # lock[t]
       => LockLapses(t) \/ call'[lock[t]].at = "idle"]_vars
=============================================================================
