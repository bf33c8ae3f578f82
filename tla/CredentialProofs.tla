-------------------------- MODULE CredentialProofs --------------------------
(***************************************************************************)
(* Proofs about the credentials a client is given: one-time codes and      *)
(* sign-up tickets (SignUp), session tokens (SessionTokens) and send       *)
(* tickets (SendTicket), each for any number of ids and of requests.  The  *)
(* three share no state and no name, and no fact of one is used for        *)
(* another.                                                                *)
(*                                                                         *)
(* Sign-up.  As long as a ticket has met no failure and no lock that       *)
(* lapsed under its holder, whoever is past the lock holds it (LockInv),   *)
(* so one request at a time is between the second look at the result and   *)
(* the release.  It finds no answer given yet: an answer outlives the      *)
(* ticket it was given for only as the cached result (ResultInv).  All     *)
(* that is known of a completion - the result, the answers, what a request *)
(* is about to answer - is one session.                                    *)
(*                                                                         *)
(* Session tokens.  A wiped login has no row left unless a refresh of it   *)
(* overlapped the wipe.  The rows are not the whole story: a refresh in    *)
(* flight carries a row that it will insert, so the same must hold of the  *)
(* token every refresh has read (FamilyInv).  A new id starts a login of   *)
(* its own that nobody has wiped, because what was wiped had been issued   *)
(* (IdInv).  The blacklist entry precedes the commit in every call past    *)
(* revoke_token (RevokeInv).                                               *)
(*                                                                         *)
(* Send tickets.  SendTicket implements OneTimeTicket.  The step that      *)
(* hands out a URL is a step of OneTimeTicket only if that ticket has      *)
(* given out none yet, which its own guard does not say.  The invariant    *)
(* that does: a call that won the compare-and-swap is the only one that    *)
(* won that ticket, and the ticket has served nobody (WinnerInv).  The     *)
(* limits on creation need two more: the tickets made with a nonce and the *)
(* calls under way with it are together no more than the calls it let pass *)
(* (NonceInv), and the rows of today and the calls that have passed the    *)
(* count are together below the bound (CapInv).                            *)
(***************************************************************************)
EXTENDS SignUp, SessionTokens, SendTicket, FiniteSetTheorems, TLAPS

\* A request past the lock, its release included.
Locked == Registering \cup {"reread", "read", "issue", "keep", "spend", "unlock"}

Completion == [at : Places, ticket : Ticket \cup {None}, name : Name \cup {None},
            who : Google \cup {None}, resp : Session \cup {None}]

\* Every request under way has its ticket, one that registers has read who, and
\* the session a request is to cache or answer was issued.
CallInv ==
  /\ call \in [Call -> Completion]
  /\ \A k \in Call :
       /\ call[k].at # "idle" => call[k].ticket \in Ticket
       /\ call[k].at \in Registering => call[k].who \in Google
       /\ call[k].resp \in issued \cup {None}
       /\ call[k].at \in {"keep", "spend"} => call[k].resp # None
       /\ call[k].at \notin {"keep", "spend", "unlock"} => call[k].resp = None

\* Types of everything else; only issued sessions are cached and answered, and an
\* exchange under way has its code.
StoreType ==
  /\ name \in [Google -> Name \cup {None}]
  /\ DOMAIN ticket = Ticket /\ \A t \in Ticket : ticket[t] \in Key \/ ticket[t] \in Google
  /\ result \in [Ticket -> issued \cup {None}]
  /\ lock \in [Ticket -> Call \cup {None, Orphan}]
  /\ DOMAIN code = Code /\ \A c \in Code : code[c] \in Key \/ code[c] \in Google \cup Ticket
  /\ faults \in 0 .. MaxFaults
  /\ known \subseteq Ticket /\ strained \subseteq Ticket
  /\ issued \subseteq Session
  /\ answers \in [Ticket -> SUBSET issued]

ExchangeInv ==
  /\ exch \in [Exchange -> [at : {"idle", "delete"}, code : Code \cup {None},
                            got : Google \cup Ticket \cup {None}]]
  /\ \A e \in Exchange : exch[e].at = "delete" => exch[e].code \in Code
  /\ spent \in [Code -> Nat]
  /\ \A c \in Code : spent[c] # 0 => code[c] = "gone"

\* Who holds the lock of a ticket, and who needs to.
LockInv ==
  /\ \A t \in Ticket, k \in Call : lock[t] = k => call[k].ticket = t /\ call[k].at \in Locked
  /\ \A k \in Call :
       call[k].at \in Locked /\ call[k].ticket \notin strained => lock[call[k].ticket] = k

\* What is known of the completion of an unstrained ticket is one session.
ResultInv ==
  \A t \in Ticket \ strained :
    /\ \A r, s \in answers[t] : r = s
    /\ result[t] # None => answers[t] \subseteq {result[t]}
    /\ result[t] = None /\ answers[t] # {} => ticket[t] = "gone"
    /\ \A k \in Call : call[k].ticket = t =>
         /\ call[k].at = "read" => result[t] = None
         /\ call[k].at \in Registering \cup {"issue", "keep"} => result[t] = None /\ answers[t] = {}
         /\ call[k].at \in {"spend", "unlock"} /\ call[k].resp # None =>
              /\ answers[t] \subseteq {call[k].resp}
              /\ result[t] = call[k].resp \/ (result[t] = None /\ ticket[t] = "gone")

Inv == StoreType /\ ExchangeInv /\ CallInv /\ LockInv /\ ResultInv

-----------------------------------------------------------------------------
(* What a step does to the requests. *)

\* Only request k has changed: it is at p, for ticket t, with s to answer.
Moved(k, p, t, s) ==
  /\ call' \in [Call -> Completion]
  /\ \A j \in Call \ {k} : call'[j] = call[j]
  /\ call'[k].at = p /\ call'[k].ticket = t /\ call'[k].resp = s
  /\ p \in Registering => call'[k].who \in Google

\* A request whose fields are known.
LEMMA Fields ==
  ASSUME NEW k \in Call, call \in [Call -> Completion], NEW x \in Completion,
         call' = [call EXCEPT ![k] = x], x.at \in Registering => x.who \in Google
  PROVE  Moved(k, x.at, x.ticket, x.resp)
  BY DEF Moved

\* A request goes on to another place and keeps what it has.
LEMMA Goes ==
  ASSUME CallInv, NEW k \in Call, NEW p \in Places, Goto(k, p),
         p \in Registering => call[k].who \in Google
  PROVE  Moved(k, p, call[k].ticket, call[k].resp)
<1> DEFINE x == [call[k] EXCEPT !.at = p]
<1>1. call[k] \in Completion BY DEF CallInv
<1>2. /\ x \in Completion /\ x.at = p /\ x.ticket = call[k].ticket /\ x.resp = call[k].resp
      /\ x.who = call[k].who
  BY <1>1 DEF Completion
<1>3. call' = [call EXCEPT ![k] = x] BY DEF Goto
<1>4. call \in [Call -> Completion] BY DEF CallInv
<1> HIDE DEF x
<1>5. QED BY <1>2, <1>3, <1>4, Fields

\* A request goes on with its ticket and a session, and forgets the rest.
LEMMA Proceeds ==
  ASSUME CallInv, NEW k \in Call, NEW p \in Places \ Registering, NEW s \in Session \cup {None},
         Proceed(k, p, s)
  PROVE  Moved(k, p, call[k].ticket, s)
<1> DEFINE x == [NoCall EXCEPT !.at = p, !.ticket = call[k].ticket, !.resp = s]
<1>1. call[k] \in Completion BY DEF CallInv
<1>2. x \in Completion /\ x.at = p /\ x.ticket = call[k].ticket /\ x.resp = s
  BY <1>1 DEF Completion, NoCall
<1>3. call' = [call EXCEPT ![k] = x] BY DEF Proceed
<1>4. call \in [Call -> Completion] BY DEF CallInv
<1> HIDE DEF x
<1>5. QED BY <1>2, <1>3, <1>4, Fields

\* A request is over.
LEMMA Ends ==
  ASSUME CallInv, NEW k \in Call, call' = [call EXCEPT ![k] = NoCall]
  PROVE  Moved(k, "idle", None, None)
<1>1. /\ NoCall \in Completion /\ NoCall.at = "idle" /\ NoCall.ticket = None /\ NoCall.resp = None
      /\ NoCall.at \notin Registering
  BY DEF Completion, NoCall, Places, Registering
<1>2. call \in [Call -> Completion] BY DEF CallInv
<1>3. QED BY <1>1, <1>2, Fields

\* A request has read who signs up.
LEMMA ReadsWho ==
  ASSUME CallInv, NEW k \in Call, NEW g \in Google,
         call' = [call EXCEPT ![k].at = "check", ![k].who = g]
  PROVE  Moved(k, "check", call[k].ticket, call[k].resp)
<1> DEFINE x == [call[k] EXCEPT !.at = "check", !.who = g]
<1>1. call[k] \in Completion BY DEF CallInv
<1>2. /\ x \in Completion /\ x.at = "check" /\ x.ticket = call[k].ticket /\ x.resp = call[k].resp
      /\ x.who = g
  BY <1>1 DEF Completion, Places, Registering
<1>3. call' = [call EXCEPT ![k] = x]
  BY DEF CallInv
<1>4. call \in [Call -> Completion] BY DEF CallInv
<1> HIDE DEF x
<1>5. Moved(k, x.at, x.ticket, x.resp) BY <1>2, <1>3, <1>4, Fields, Zenon
<1>6. QED BY <1>2, <1>5, Zenon

\* A request begins at the lock.
LEMMA Starts ==
  ASSUME CallInv, NEW k \in Call, NEW t \in Ticket, NEW n \in Name,
         call' = [call EXCEPT ![k] = [NoCall EXCEPT !.at = "lock", !.ticket = t, !.name = n]]
  PROVE  Moved(k, "lock", t, None)
<1> DEFINE x == [NoCall EXCEPT !.at = "lock", !.ticket = t, !.name = n]
<1>1. x \in Completion /\ x.at = "lock" /\ x.ticket = t /\ x.resp = None /\ x.at \notin Registering
  BY DEF Completion, NoCall, Places, Registering
<1>2. call \in [Call -> Completion] BY DEF CallInv
<1> HIDE DEF x
<1>3. QED BY <1>1, <1>2, Fields DEF x

-----------------------------------------------------------------------------
(* The steps of a request, by what they do to what the invariants are about. *)

\* It takes the free lock, goes on without one after a failure, or waits.
LEMMA LockEffect ==
  ASSUME CallInv, lock \in [Ticket -> Call \cup {None, Orphan}],
         NEW k \in Call, SignupLock(k), NEW t, t = call[k].ticket
  PROVE  /\ call[k].at = "lock" /\ UNCHANGED <<result, ticket, answers, issued>>
         /\ \/ /\ Moved(k, "reread", t, None) /\ UNCHANGED strained
               /\ lock[t] = None /\ lock' = [lock EXCEPT ![t] = k]
            \/ /\ Moved(k, "reread", t, None) /\ strained' = strained \cup {t}
               /\ UNCHANGED lock
            \/ /\ Moved(k, "poll", t, None) /\ strained' \in {strained, strained \cup {t}}
               /\ \/ UNCHANGED lock
                  \/ lock[t] = None /\ lock' = [lock EXCEPT ![t] = Orphan]
<1>1. call[k].at = "lock" /\ call[k].resp = None BY DEF SignupLock, CallInv
<1>2. Goto(k, "reread") => Moved(k, "reread", t, None) BY <1>1, Goes DEF Places, Registering
<1>3. Proceed(k, "poll", None) => Moved(k, "poll", t, None) BY Proceeds DEF Places, Registering
<1>4. \/ [lock EXCEPT ![t] = IF @ = None THEN Orphan ELSE @] = lock
      \/ /\ lock[t] = None
         /\ [lock EXCEPT ![t] = IF @ = None THEN Orphan ELSE @] = [lock EXCEPT ![t] = Orphan]
  BY <1>1 DEF CallInv
<1>5. UNCHANGED <<result, ticket, answers, issued>> BY DEF SignupLock, told
<1> DEFINE Taken == /\ lock[t] = None /\ lock' = [lock EXCEPT ![t] = k]
                    /\ Goto(k, "reread") /\ RedisAnswers
           Unlocked == RedisFails(t) /\ Goto(k, "reread") /\ UNCHANGED lock
           Waits == Proceed(k, "poll", None) /\ RedisAnswers /\ UNCHANGED lock
           Unsure == /\ RedisFails(t) /\ Proceed(k, "poll", None)
                     /\ lock' \in {lock, [lock EXCEPT ![t] = IF @ = None THEN Orphan ELSE @]}
<1>6. Taken \/ Unlocked \/ Waits \/ Unsure BY DEF SignupLock
<1>7. CASE Taken BY <1>1, <1>2, <1>5, <1>7 DEF RedisAnswers, redis
<1>8. CASE Unlocked BY <1>1, <1>2, <1>5, <1>8 DEF RedisFails
<1>9. CASE Waits BY <1>1, <1>3, <1>5, <1>9 DEF RedisAnswers, redis
<1>10. CASE Unsure BY <1>1, <1>3, <1>4, <1>5, <1>10 DEF RedisFails
<1>11. QED BY <1>6, <1>7, <1>8, <1>9, <1>10

\* It answers the cached result, if there is one.
LEMMA PollEffect ==
  ASSUME CallInv, NEW k \in Call, SignupPoll(k), NEW t, t = call[k].ticket
  PROVE  /\ call[k].at = "poll" /\ Moved(k, "idle", None, None)
         /\ answers' = [answers EXCEPT ![t] = @ \cup ({result[t]} \ {None})]
         /\ UNCHANGED <<lock, result, ticket, strained, issued>>
<1>1. Moved(k, "idle", None, None) BY Ends DEF SignupPoll, Return
<1>2. QED BY <1>1 DEF SignupPoll, Return, store, redis

\* It ends with the result that is cached by now, or goes on.
LEMMA ReReadEffect ==
  ASSUME CallInv, result \in [Ticket -> Session \cup {None}],
         NEW k \in Call, SignupReRead(k), NEW t, t = call[k].ticket
  PROVE  /\ call[k].at = "reread" /\ UNCHANGED <<lock, result, ticket, answers, issued>>
         /\ \/ Moved(k, "unlock", t, result[t]) /\ result[t] # None /\ UNCHANGED strained
            \/ Moved(k, "read", t, None) /\ result[t] = None /\ UNCHANGED strained
            \/ Moved(k, "read", t, None) /\ strained' = strained \cup {t}
<1>1. call[k].at = "reread" /\ call[k].resp = None /\ t \in Ticket BY DEF SignupReRead, CallInv
<1>2. Goto(k, "read") => Moved(k, "read", t, None) BY <1>1, Goes DEF Places, Registering
<1>3. Conclude(k, result[t]) => Moved(k, "unlock", t, result[t])
  BY <1>1, Proceeds DEF Conclude, Places, Registering
<1>4. QED BY <1>1, <1>2, <1>3 DEF SignupReRead, RedisAnswers, RedisFails, store, redis, told

\* It learns from the ticket who signs up, or ends.
LEMMA ReadEffect ==
  ASSUME CallInv, NEW k \in Call, SignupRead(k), NEW t, t = call[k].ticket
  PROVE  /\ call[k].at = "read" /\ UNCHANGED <<lock, result, ticket, answers, issued>>
         /\ \/ Moved(k, "check", t, None) /\ ticket[t] \in Google /\ UNCHANGED strained
            \/ Moved(k, "unlock", t, None) /\ strained' \in {strained, strained \cup {t}}
<1>1. call[k].at = "read" /\ call[k].resp = None BY DEF SignupRead, CallInv
<1>2. Conclude(k, None) => Moved(k, "unlock", t, None) BY Proceeds DEF Conclude, Places, Registering
<1>3. ASSUME ticket[t] \in Google, call' = [call EXCEPT ![k].at = "check", ![k].who = ticket[t]]
      PROVE  Moved(k, "check", t, None)
  BY <1>1, <1>3, ReadsWho
<1>4. QED BY <1>1, <1>2, <1>3 DEF SignupRead, RedisAnswers, RedisFails, store, redis, told

\* It registers the account, or ends.
LEMMA RegisterEffect ==
  ASSUME CallInv, NEW k \in Call, NEW t, t = call[k].ticket,
         RegisterCheck(k) \/ RegisterFind(k) \/ RegisterWrite(k)
  PROVE  /\ call[k].at \in Registering
         /\ UNCHANGED <<lock, result, ticket, answers, strained, issued>>
         /\ \/ \E p \in Registering \cup {"issue"} : Moved(k, p, t, None)
            \/ Moved(k, "unlock", t, None)
<1>1. /\ call[k].at \in Registering /\ call[k].resp = None
      /\ UNCHANGED <<lock, result, ticket, answers, strained, issued>>
  BY DEF RegisterCheck, RegisterFind, RegisterWrite, CallInv, Registering, store, redis, told
<1>2. Conclude(k, None) => Moved(k, "unlock", t, None) BY Proceeds DEF Conclude, Places, Registering
<1>3. Proceed(k, "issue", None) => Moved(k, "issue", t, None) BY Proceeds DEF Places, Registering
<1>4. \A p \in Registering : Goto(k, p) => Moved(k, p, t, None)
  BY <1>1, Goes DEF CallInv, Places
<1>5. CASE RegisterFind(k)
  BY <1>1, <1>4, <1>5 DEF RegisterFind, Registering
<1>6. CASE RegisterCheck(k)
  BY <1>1, <1>2, <1>4, <1>6 DEF RegisterCheck, Registering
<1>7. CASE RegisterWrite(k)
  BY <1>1, <1>2, <1>3, <1>7 DEF RegisterWrite
<1>8. QED BY <1>5, <1>6, <1>7

\* It has a new session issued, or ends.
LEMMA IssueEffect ==
  ASSUME CallInv, NEW k \in Call, RegisterIssue(k), NEW t, t = call[k].ticket
  PROVE  /\ call[k].at = "issue" /\ UNCHANGED <<lock, result, ticket, answers, strained>>
         /\ \/ \E s \in Session \ issued : issued' = issued \cup {s} /\ Moved(k, "keep", t, s)
            \/ Moved(k, "unlock", t, None) /\ UNCHANGED issued
<1>1. Conclude(k, None) => Moved(k, "unlock", t, None) BY Proceeds DEF Conclude, Places, Registering
<1>2. \A s \in Session : Proceed(k, "keep", s) => Moved(k, "keep", t, s)
  BY Proceeds DEF Places, Registering
<1>3. QED BY <1>1, <1>2 DEF RegisterIssue, store, redis, told

\* It caches the result.
LEMMA KeepEffect ==
  ASSUME CallInv, NEW k \in Call, SignupKeep(k), NEW t, t = call[k].ticket
  PROVE  /\ call[k].at = "keep" /\ Moved(k, "spend", t, call[k].resp)
         /\ UNCHANGED <<lock, ticket, answers, issued>>
         /\ \/ result' = [result EXCEPT ![t] = call[k].resp] /\ UNCHANGED strained
            \/ UNCHANGED result /\ strained' = strained \cup {t}
<1>1. Moved(k, "spend", t, call[k].resp) BY Goes DEF SignupKeep, Places, Registering
<1>2. QED BY <1>1 DEF SignupKeep, RedisAnswers, RedisFails, redis, told

\* It deletes the ticket.
LEMMA SpendEffect ==
  ASSUME CallInv, NEW k \in Call, SignupSpend(k), NEW t, t = call[k].ticket
  PROVE  /\ call[k].at = "spend" /\ Moved(k, "unlock", t, call[k].resp)
         /\ UNCHANGED <<lock, result, answers, issued>>
         /\ \/ ticket' = [ticket EXCEPT ![t] = "gone"] /\ UNCHANGED strained
            \/ UNCHANGED ticket /\ strained' = strained \cup {t}
<1>1. Moved(k, "unlock", t, call[k].resp) BY Goes DEF SignupSpend, Places, Registering
<1>2. QED BY <1>1 DEF SignupSpend, RedisAnswers, RedisFails, redis, told

\* It answers, and no lock has its value any more.
LEMMA UnlockEffect ==
  ASSUME CallInv, NEW k \in Call, SignupUnlock(k), NEW t, t = call[k].ticket
  PROVE  /\ call[k].at = "unlock" /\ Moved(k, "idle", None, None)
         /\ answers' = [answers EXCEPT ![t] = @ \cup ({call[k].resp} \ {None})]
         /\ UNCHANGED <<result, ticket, issued>>
         /\ strained' \in {strained, strained \cup {t}}
         /\ lock' = Abandoned(k) \/ lock' = [lock EXCEPT ![t] = IF @ = k THEN None ELSE @]
<1>1. Moved(k, "idle", None, None) BY Ends DEF SignupUnlock, Return
<1>2. QED BY <1>1 DEF SignupUnlock, Return, RedisAnswers, RedisFails, redis

\* It is dropped, and leaves its lock behind.
LEMMA DropEffect ==
  ASSUME CallInv, NEW k \in Call, SignupDropped(k)
  PROVE  /\ Moved(k, "idle", None, None) /\ lock' = Abandoned(k)
         /\ UNCHANGED <<result, ticket, answers, strained, issued>>
<1>1. Moved(k, "idle", None, None) BY Ends DEF SignupDropped
<1>2. QED BY <1>1 DEF SignupDropped, redis, told

\* It starts.
LEMMA StartEffect ==
  ASSUME CallInv, NEW k \in Call, NEW t \in Ticket, NEW n \in Name, SignupStart(k, t, n)
  PROVE  /\ call[k].at = "idle" /\ Moved(k, "lock", t, None)
         /\ strained' \in {strained, strained \cup {t}}
         /\ UNCHANGED <<lock, result, ticket, answers, issued>>
<1>1. Moved(k, "lock", t, None) BY Starts DEF SignupStart
<1>2. QED BY <1>1 DEF SignupStart, RedisAnswers, RedisFails, store, redis, told

\* The sessions answered for one ticket grow.
LEMMA Adds ==
  ASSUME answers \in [Ticket -> SUBSET issued], NEW t \in Ticket, NEW S,
         answers' = [answers EXCEPT ![t] = @ \cup S]
  PROVE  /\ answers'[t] = answers[t] \cup S
         /\ \A u \in Ticket \ {t} : answers'[u] = answers[u]
  OBVIOUS

-----------------------------------------------------------------------------
\* A request keeps its ticket, and what it answers was issued.
LEMMA CallNext == ASSUME StoreType, CallInv, [Next]_vars PROVE CallInv'
<1> USE SignUpAssumption DEF StoreType, CallInv, Registering
<1>1. CASE UNCHANGED vars BY <1>1 DEF vars, store, redis, told
<1>2. ASSUME NEW c \in Code, NEW g \in Google,
             CallbackLogin(g, c) \/ \E t \in Ticket : CallbackSignup(g, c, t)
      PROVE  CallInv'
  BY <1>2 DEF CallbackLogin, CallbackSignup, redis, told
<1>3. ASSUME NEW c \in Code, CodeLapses(c) PROVE CallInv'
  BY <1>3 DEF CodeLapses, redis, told
<1>4. ASSUME NEW e \in Exchange,
             ExchangeDelete(e) \/ ExchangeBreaks(e) \/ \E c \in Code : ExchangeGet(e, c)
      PROVE  CallInv'
  BY <1>4 DEF ExchangeDelete, ExchangeBreaks, ExchangeGet, store, redis, told
<1>5. ASSUME NEW k \in Call, SignupStep(k) \/ SignupDropped(k) PROVE CallInv'
  <2> DEFINE t == call[k].ticket
  <2> USE DEF Moved
  <2>1. CASE SignupLock(k)
    BY <2>1, LockEffect
  <2>2. CASE SignupPoll(k)
    BY <2>2, PollEffect
  <2>3. CASE SignupReRead(k)
    BY <2>3, ReReadEffect
  <2>4. CASE SignupRead(k)
    BY <2>4, ReadEffect
  <2>5. CASE RegisterCheck(k) \/ RegisterFind(k) \/ RegisterWrite(k)
    BY <2>5, RegisterEffect
  <2>6. CASE RegisterIssue(k)
    BY <2>6, IssueEffect
  <2>7. CASE SignupKeep(k)
    BY <2>7, KeepEffect
  <2>8. CASE SignupSpend(k)
    BY <2>8, SpendEffect
  <2>9. CASE SignupUnlock(k)
    BY <2>9, UnlockEffect DEF Abandoned
  <2>10. CASE SignupDropped(k)
    BY <2>10, DropEffect DEF Abandoned
  <2>11. QED
    BY <1>5, <2>1, <2>2, <2>3, <2>4, <2>5, <2>6, <2>7, <2>8, <2>9, <2>10 DEF SignupStep
<1>6. ASSUME NEW k \in Call, NEW t \in Ticket, NEW n \in Name, SignupStart(k, t, n)
      PROVE  CallInv'
  BY <1>6, StartEffect DEF Moved
<1>7. ASSUME NEW t \in Ticket,
             SignupReplay(t) \/ LockLapses(t) \/ TicketLapses(t) \/ ResultLapses(t)
      PROVE  CallInv'
  BY <1>7 DEF SignupReplay, LockLapses, TicketLapses, ResultLapses, store, redis, told
<1>8. QED BY <1>1, <1>2, <1>3, <1>4, <1>5, <1>6, <1>7 DEF Next

\* Whoever is past the lock of an unstrained ticket holds it.
LEMMA LockNext == ASSUME StoreType, CallInv, LockInv, [Next]_vars PROVE LockInv'
<1> USE SignUpAssumption DEF StoreType, CallInv, LockInv, Locked, Registering
<1>1. CASE UNCHANGED vars BY <1>1 DEF vars, store, redis, told
<1>2. ASSUME NEW c \in Code, NEW g \in Google,
             CallbackLogin(g, c) \/ \E t \in Ticket : CallbackSignup(g, c, t)
      PROVE  LockInv'
  BY <1>2 DEF CallbackLogin, CallbackSignup, redis, told
<1>3. ASSUME NEW c \in Code, CodeLapses(c) PROVE LockInv'
  BY <1>3 DEF CodeLapses, redis, told
<1>4. ASSUME NEW e \in Exchange,
             ExchangeDelete(e) \/ ExchangeBreaks(e) \/ \E c \in Code : ExchangeGet(e, c)
      PROVE  LockInv'
  BY <1>4 DEF ExchangeDelete, ExchangeBreaks, ExchangeGet, store, redis, told
<1>5. ASSUME NEW k \in Call, SignupStep(k) \/ SignupDropped(k) PROVE LockInv'
  <2> DEFINE t == call[k].ticket
  <2> USE DEF Moved
  <2>1. CASE SignupLock(k)
    BY <2>1, LockEffect
  <2>2. CASE SignupPoll(k)
    BY <2>2, PollEffect
  <2>3. CASE SignupReRead(k)
    BY <2>3, ReReadEffect
  <2>4. CASE SignupRead(k)
    BY <2>4, ReadEffect
  <2>5. CASE RegisterCheck(k) \/ RegisterFind(k) \/ RegisterWrite(k)
    BY <2>5, RegisterEffect
  <2>6. CASE RegisterIssue(k)
    BY <2>6, IssueEffect
  <2>7. CASE SignupKeep(k)
    BY <2>7, KeepEffect
  <2>8. CASE SignupSpend(k)
    BY <2>8, SpendEffect
  <2>9. CASE SignupUnlock(k)
    BY <2>9, UnlockEffect DEF Abandoned
  <2>10. CASE SignupDropped(k)
    BY <2>10, DropEffect DEF Abandoned
  <2>11. QED
    BY <1>5, <2>1, <2>2, <2>3, <2>4, <2>5, <2>6, <2>7, <2>8, <2>9, <2>10 DEF SignupStep
<1>6. ASSUME NEW k \in Call, NEW t \in Ticket, NEW n \in Name, SignupStart(k, t, n)
      PROVE  LockInv'
  BY <1>6, StartEffect DEF Moved
<1>7. ASSUME NEW t \in Ticket,
             SignupReplay(t) \/ LockLapses(t) \/ TicketLapses(t) \/ ResultLapses(t)
      PROVE  LockInv'
  BY <1>7 DEF SignupReplay, LockLapses, TicketLapses, ResultLapses, store, redis, told
<1>8. QED BY <1>1, <1>2, <1>3, <1>4, <1>5, <1>6, <1>7 DEF Next

\* One session is answered for an unstrained ticket.
LEMMA ResultNext == ASSUME StoreType, CallInv, LockInv, ResultInv, [Next]_vars PROVE ResultInv'
<1> USE SignUpAssumption DEF StoreType, CallInv, LockInv, ResultInv, Locked, Registering, Key
<1>1. CASE UNCHANGED vars BY <1>1 DEF vars, store, redis, told
<1>2. ASSUME NEW c \in Code, NEW g \in Google,
             CallbackLogin(g, c) \/ \E t \in Ticket : CallbackSignup(g, c, t)
      PROVE  ResultInv'
  BY <1>2 DEF CallbackLogin, CallbackSignup, redis, told
<1>3. ASSUME NEW c \in Code, CodeLapses(c) PROVE ResultInv'
  BY <1>3 DEF CodeLapses, redis, told
<1>4. ASSUME NEW e \in Exchange,
             ExchangeDelete(e) \/ ExchangeBreaks(e) \/ \E c \in Code : ExchangeGet(e, c)
      PROVE  ResultInv'
  BY <1>4 DEF ExchangeDelete, ExchangeBreaks, ExchangeGet, store, redis, told
<1>5. ASSUME NEW k \in Call, SignupStep(k) \/ SignupDropped(k) PROVE ResultInv'
  <2> DEFINE t == call[k].ticket
  <2> USE DEF Moved
  <2>1. CASE SignupLock(k)
    BY <2>1, LockEffect
  <2>2. CASE SignupPoll(k)
    <3>1. /\ answers'[t] = answers[t] \cup ({result[t]} \ {None})
          /\ \A u \in Ticket \ {t} : answers'[u] = answers[u]
      <4>1. t \in Ticket /\ answers' = [answers EXCEPT ![t] = @ \cup ({result[t]} \ {None})]
        BY <2>2, PollEffect
      <4>2. QED BY <4>1, Adds
    <3>2. t \notin strained => answers'[t] = IF result[t] = None THEN answers[t] ELSE {result[t]}
      BY <2>2, <3>1, PollEffect
    <3> HIDE DEF t
    <3>3. QED BY <2>2, <3>1, <3>2, PollEffect DEF t
  <2>3. CASE SignupReRead(k)
    BY <2>3, ReReadEffect
  <2>4. CASE SignupRead(k)
    BY <2>4, ReadEffect
  <2>5. CASE RegisterCheck(k) \/ RegisterFind(k) \/ RegisterWrite(k)
    BY <2>5, RegisterEffect
  <2>6. CASE RegisterIssue(k)
    BY <2>6, IssueEffect
  <2>7. CASE SignupKeep(k)
    BY <2>7, KeepEffect
  <2>8. CASE SignupSpend(k)
    BY <2>8, SpendEffect
  <2>9. CASE SignupUnlock(k)
    <3>1. /\ answers'[t] = answers[t] \cup ({call[k].resp} \ {None})
          /\ \A u \in Ticket \ {t} : answers'[u] = answers[u]
      <4>1. t \in Ticket /\ answers' = [answers EXCEPT ![t] = @ \cup ({call[k].resp} \ {None})]
        BY <2>9 DEF SignupUnlock, Return
      <4>2. QED BY <4>1, Adds
    <3>2. t \notin strained => \A j \in Call \ {k} : call[j].ticket = t => call[j].at \notin Locked
      BY <2>9, UnlockEffect
    <3>3. /\ t \in Ticket /\ call[k].at = "unlock" /\ Moved(k, "idle", None, None)
          /\ result' = result /\ ticket' = ticket
          /\ strained \subseteq strained'
      BY <2>9, UnlockEffect
    <3>4. None \notin Ticket
      OBVIOUS
    <3> HIDE DEF t
    <3>5. ASSUME NEW u \in Ticket \ strained', u # t
          PROVE  /\ u \in Ticket \ strained /\ answers'[u] = answers[u]
                 /\ \A j \in Call : call'[j].ticket = u => call'[j] = call[j]
      BY <3>1, <3>3, <3>4, <3>5
    <3>6. ASSUME t \notin strained'
          PROVE  /\ t \in Ticket \ strained
                 /\ answers'[t] = answers[t] \cup ({call[k].resp} \ {None})
                 /\ \A j \in Call : call'[j].ticket = t =>
                      j # k /\ call'[j] = call[j] /\ call[j].at \notin Locked
      BY <3>1, <3>2, <3>3, <3>4, <3>6
    <3>7. ASSUME t \notin strained'
          PROVE  call[k].resp # None => answers[t] \subseteq {call[k].resp}
      BY <3>3, <3>6, <3>7 DEF t
    <3>8. QED BY <3>3, <3>5, <3>6, <3>7 DEF t
  <2>10. CASE SignupDropped(k)
    BY <2>10, DropEffect DEF Abandoned
  <2>11. QED
    BY <1>5, <2>1, <2>2, <2>3, <2>4, <2>5, <2>6, <2>7, <2>8, <2>9, <2>10 DEF SignupStep
<1>6. ASSUME NEW k \in Call, NEW t \in Ticket, NEW n \in Name, SignupStart(k, t, n)
      PROVE  ResultInv'
  BY <1>6, StartEffect DEF Moved
<1>7. ASSUME NEW t \in Ticket,
             SignupReplay(t) \/ LockLapses(t) \/ TicketLapses(t) \/ ResultLapses(t)
      PROVE  ResultInv'
  BY <1>7 DEF SignupReplay, LockLapses, TicketLapses, ResultLapses, store, redis, told
<1>8. QED BY <1>1, <1>2, <1>3, <1>4, <1>5, <1>6, <1>7 DEF Next

\* The keys, the rows and the histories keep their types.
LEMMA StoreNext == ASSUME StoreType, ExchangeInv, CallInv, [Next]_vars PROVE StoreType'
<1> USE SignUpAssumption DEF StoreType, Key
<1>1. CASE UNCHANGED vars BY <1>1 DEF vars, store, redis, told
<1>2. ASSUME NEW c \in Code, NEW g \in Google,
             CallbackLogin(g, c) \/ \E t \in Ticket : CallbackSignup(g, c, t)
      PROVE  StoreType'
  BY <1>2 DEF CallbackLogin, CallbackSignup, redis, told
<1>3. ASSUME NEW c \in Code, CodeLapses(c) PROVE StoreType'
  BY <1>3 DEF CodeLapses, redis, told
<1>4. ASSUME NEW e \in Exchange,
             ExchangeDelete(e) \/ ExchangeBreaks(e) \/ \E c \in Code : ExchangeGet(e, c)
      PROVE  StoreType'
  BY <1>4 DEF ExchangeDelete, ExchangeBreaks, ExchangeGet, Answer, ExchangeInv, store, redis, told
<1>5. ASSUME NEW k \in Call, SignupStep(k) \/ SignupDropped(k) PROVE StoreType'
  <2> DEFINE t == call[k].ticket
  <2>1. call[k].at # "idle" BY <1>5
    DEF SignupStep, SignupDropped, SignupLock, SignupPoll, SignupReRead, SignupRead, RegisterCheck,
        RegisterFind, RegisterWrite, RegisterIssue, SignupKeep, SignupSpend, SignupUnlock
  <2>2. t \in Ticket /\ call[k].resp \in issued \cup {None} BY <2>1 DEF CallInv
  <2>3. call[k] \in Completion BY DEF CallInv
  <2> USE DEF RedisAnswers, RedisFails, redis, told
  <2>4. CASE SignupLock(k)
    BY <2>2, <2>4 DEF SignupLock
  <2>5. CASE SignupPoll(k)
    BY <2>2, <2>5 DEF SignupPoll, Return, store
  <2>6. CASE SignupReRead(k)
    BY <2>2, <2>6 DEF SignupReRead, store
  <2>7. CASE SignupRead(k)
    BY <2>2, <2>7 DEF SignupRead, store
  <2>8. CASE RegisterCheck(k) \/ RegisterFind(k)
    BY <2>8 DEF RegisterCheck, RegisterFind, store
  <2>9. CASE RegisterWrite(k)
    BY <2>3, <2>9 DEF RegisterWrite, Completion
  <2>10. CASE RegisterIssue(k)
    BY <2>10 DEF RegisterIssue, store
  <2>11. CASE SignupKeep(k)
    BY <2>2, <2>11 DEF SignupKeep
  <2>12. CASE SignupSpend(k)
    BY <2>2, <2>12 DEF SignupSpend
  <2>13. CASE SignupUnlock(k)
    BY <2>2, <2>13 DEF SignupUnlock, Return, Abandoned
  <2>14. CASE SignupDropped(k)
    BY <2>14 DEF SignupDropped, Abandoned
  <2>15. QED
    BY <1>5, <2>4, <2>5, <2>6, <2>7, <2>8, <2>9, <2>10, <2>11, <2>12, <2>13, <2>14 DEF SignupStep
<1>6. ASSUME NEW k \in Call, NEW t \in Ticket, NEW n \in Name, SignupStart(k, t, n)
      PROVE  StoreType'
  BY <1>6 DEF SignupStart, RedisAnswers, RedisFails, store, redis, told
<1>7. ASSUME NEW t \in Ticket,
             SignupReplay(t) \/ LockLapses(t) \/ TicketLapses(t) \/ ResultLapses(t)
      PROVE  StoreType'
  BY <1>7 DEF SignupReplay, LockLapses, TicketLapses, ResultLapses, store, redis, told
<1>8. QED BY <1>1, <1>2, <1>3, <1>4, <1>5, <1>6, <1>7 DEF Next

\* A code that was answered stays gone.
LEMMA ExchangeNext == ASSUME StoreType, ExchangeInv, [Next]_vars PROVE ExchangeInv'
<1> USE SignUpAssumption DEF StoreType, ExchangeInv, Key
<1>1. CASE UNCHANGED vars BY <1>1 DEF vars, store, redis, told
<1>2. ASSUME NEW c \in Code, NEW g \in Google,
             CallbackLogin(g, c) \/ \E t \in Ticket : CallbackSignup(g, c, t)
      PROVE  ExchangeInv'
  BY <1>2 DEF CallbackLogin, CallbackSignup, redis, told
<1>3. ASSUME NEW c \in Code, CodeLapses(c) PROVE ExchangeInv'
  BY <1>3 DEF CodeLapses, redis, told
<1>4. ASSUME NEW e \in Exchange, ExchangeDelete(e) PROVE ExchangeInv'
  BY <1>4 DEF ExchangeDelete, Answer, NoExchange
<1>5. ASSUME NEW e \in Exchange, ExchangeBreaks(e) PROVE ExchangeInv'
  BY <1>5 DEF ExchangeBreaks, NoExchange, store, told
<1>6. ASSUME NEW e \in Exchange, NEW c \in Code, ExchangeGet(e, c) PROVE ExchangeInv'
  BY <1>6 DEF ExchangeGet, store, told
<1>7. ASSUME NEW k \in Call, SignupStep(k) \/ SignupDropped(k) PROVE ExchangeInv'
  <2>1. UNCHANGED <<exch, spent, code>> BY <1>7
    DEF SignupStep, SignupDropped, SignupLock, SignupPoll, SignupReRead, SignupRead, RegisterCheck,
        RegisterFind, RegisterWrite, RegisterIssue, SignupKeep, SignupSpend, SignupUnlock, Return,
        store, told
  <2>2. QED BY <2>1
<1>8. ASSUME NEW k \in Call, NEW t \in Ticket, NEW n \in Name, SignupStart(k, t, n)
      PROVE  ExchangeInv'
  BY <1>8 DEF SignupStart, store, told
<1>9. ASSUME NEW t \in Ticket,
             SignupReplay(t) \/ LockLapses(t) \/ TicketLapses(t) \/ ResultLapses(t)
      PROVE  ExchangeInv'
  BY <1>9 DEF SignupReplay, LockLapses, TicketLapses, ResultLapses, store, told
<1>10. QED BY <1>1, <1>2, <1>3, <1>4, <1>5, <1>6, <1>7, <1>8, <1>9 DEF Next

-----------------------------------------------------------------------------
(* The theorems. *)

\* The invariant of signing up holds in every state.
THEOREM SignUpInvariant == Spec => []Inv
<1>1. Init => Inv
  <2> SUFFICES ASSUME Init PROVE Inv OBVIOUS
  <2>1. NoCall \in Completion /\ NoCall.at = "idle" /\ NoCall.ticket = None /\ NoCall.resp = None
    BY DEF NoCall, Completion, Places
  <2>2. \A k \in Call : call[k] = NoCall BY DEF Init
  <2>3. CallInv BY <2>1, <2>2 DEF Init, CallInv, Registering
  <2>4. LockInv BY <2>1, <2>2, SignUpAssumption DEF Init, LockInv, Locked, Registering
  <2>5. ResultInv BY <2>1, <2>2, SignUpAssumption DEF Init, ResultInv, Registering
  <2>6. StoreType BY SignUpAssumption DEF Init, StoreType, Key
  <2>7. ExchangeInv BY DEF Init, ExchangeInv, NoExchange
  <2>8. QED BY <2>3, <2>4, <2>5, <2>6, <2>7 DEF Inv
<1>2. Inv /\ [Next]_vars => Inv'
  BY StoreNext, ExchangeNext, CallNext, LockNext, ResultNext DEF Inv
<1>3. QED BY <1>1, <1>2, PTL DEF Spec

\* Every variable keeps its type, a registering request knows who it
\* registers, and only issued sessions are cached and answered.
THEOREM SignUpTypes == Spec => []TypeOK
<1>1. Inv => TypeOK
  <2> SUFFICES ASSUME Inv PROVE TypeOK OBVIOUS
  <2>1. call \in [Call -> Completion] BY DEF Inv, CallInv
  <2>2. \A k \in Call : /\ call[k].at \in Registering => call[k].who \in Google
                        /\ call[k].at \in {"keep", "spend"} => call[k].resp \in issued
    BY DEF Inv, CallInv
  <2>3. QED BY <2>1, <2>2 DEF Inv, StoreType, ExchangeInv, TypeOK, Completion
<1>2. QED BY <1>1, SignUpInvariant, PTL

\* Whatever is repeated or sent twice at once, the successful completions of
\* an unstrained ticket all carry one session.
THEOREM OneSession == Spec => []OneSessionPerTicket
<1>1. Inv => OneSessionPerTicket
  <2> SUFFICES ASSUME Inv, NEW t \in Ticket \ strained PROVE Cardinality(answers[t]) <= 1
    BY DEF OneSessionPerTicket
  <2>1. \A r, s \in answers[t] : r = s BY DEF Inv, ResultInv
  <2>2. CASE answers[t] = {} BY <2>2, FS_EmptySet
  <2>3. CASE answers[t] # {}
    <3>1. PICK s \in answers[t] : answers[t] = {s} BY <2>1, <2>3
    <3>2. QED BY <3>1, FS_Singleton
  <2>4. QED BY <2>2, <2>3
<1>2. QED BY <1>1, SignUpInvariant, PTL

\* After a completion was answered no request for the ticket changes an account.
THEOREM AnswersAreFinal == Spec => AnsweredIsFinal
<1> DEFINE
  Final == \A k \in Call :
             LET t == call[k].ticket IN
             call[k].at \in {"insert", "update"} /\ t \notin strained /\ answers[t] # {}
               => call'[k].at # "issue"
<1>1. Inv /\ [Next]_vars => [Final]_vars
  <2> SUFFICES ASSUME Inv PROVE Final OBVIOUS
  <2>1. ASSUME NEW k \in Call, call[k].at \in {"insert", "update"}, call[k].ticket \notin strained
        PROVE  answers[call[k].ticket] = {}
    BY <2>1 DEF Inv, CallInv, ResultInv, Registering
  <2>2. QED BY <2>1
<1>2. QED BY <1>1, SignUpInvariant, PTL DEF Spec, AnsweredIsFinal

\* What is left of single use: after an exchange of a code was answered no further
\* request reads the code.  Only exchanges that had read it by then, between
\* consume_otc's GET and its DEL, can still be answered.
THEOREM NoReadAfterAnswer ==
  Spec => [][\A e \in Exchange :
               exch[e].at = "idle" /\ exch'[e].at = "delete" => spent[exch'[e].code] = 0]_vars
<1> DEFINE
  Unread == \A e \in Exchange :
              exch[e].at = "idle" /\ exch'[e].at = "delete" => spent[exch'[e].code] = 0
<1>1. Inv /\ [Next]_vars => [Unread]_vars
  <2> SUFFICES ASSUME Inv, Next, NEW e \in Exchange, exch[e].at = "idle", exch'[e].at = "delete"
               PROVE  spent[exch'[e].code] = 0
    OBVIOUS
  <2>1. PICK c \in Code : ExchangeGet(e, c)
    <3> USE DEF Inv, ExchangeInv
    <3>1. ASSUME NEW d \in Exchange, ExchangeDelete(d) \/ ExchangeBreaks(d) PROVE FALSE
      BY <3>1 DEF ExchangeDelete, ExchangeBreaks, NoExchange
    <3>2. ASSUME NEW d \in Exchange, NEW c \in Code, ExchangeGet(d, c), d # e PROVE FALSE
      BY <3>2 DEF ExchangeGet
    <3>3. \/ UNCHANGED exch
          \/ \E d \in Exchange : ExchangeDelete(d) \/ ExchangeBreaks(d)
          \/ \E d \in Exchange, c \in Code : ExchangeGet(d, c)
      BY DEF Next, CallbackLogin, CallbackSignup, CodeLapses, SignupStep, SignupDropped,
             SignupLock, SignupPoll, SignupReRead, SignupRead, RegisterCheck, RegisterFind,
             RegisterWrite, RegisterIssue, SignupKeep, SignupSpend, SignupUnlock, SignupStart,
             SignupReplay, LockLapses, TicketLapses, ResultLapses
    <3>4. QED BY <3>1, <3>2, <3>3
  <2>2. exch'[e].code = c /\ code[c] \notin Key
    BY <2>1 DEF ExchangeGet, Inv, ExchangeInv
  <2>3. QED BY <2>2 DEF Inv, ExchangeInv, Key
<1>2. QED BY <1>1, SignUpInvariant, PTL DEF Spec

\* A lock goes when its own holder is over or when it lapses, never by
\* the hand of a request that overran.
THEOREM LockReleased == Spec => ReleasedByHolder
<1> DEFINE
  Held == \A t \in Ticket : lock[t] \in Call /\ lock'[t] # lock[t]
            => LockLapses(t) \/ call'[lock[t]].at = "idle"
<1>1. Inv /\ [Next]_vars => [Held]_vars
  <2> SUFFICES ASSUME Inv, Next, NEW t \in Ticket, lock[t] \in Call, lock'[t] # lock[t]
               PROVE  LockLapses(t) \/ call'[lock[t]].at = "idle"
    OBVIOUS
  <2> USE SignUpAssumption DEF Inv, StoreType
  <2>1. ASSUME NEW g \in Google, NEW c \in Code,
               CallbackLogin(g, c) \/ \E u \in Ticket : CallbackSignup(g, c, u)
        PROVE  FALSE
    BY <2>1 DEF CallbackLogin, CallbackSignup
  <2>2. ASSUME NEW c \in Code, CodeLapses(c) PROVE FALSE
    BY <2>2 DEF CodeLapses
  <2>3. ASSUME NEW e \in Exchange,
               ExchangeDelete(e) \/ ExchangeBreaks(e) \/ \E c \in Code : ExchangeGet(e, c)
        PROVE  FALSE
    BY <2>3 DEF ExchangeDelete, ExchangeBreaks, ExchangeGet, store
  <2>4. ASSUME NEW k \in Call, SignupStep(k) \/ SignupDropped(k)
        PROVE  call'[lock[t]].at = "idle"
    <3>1. SignupLock(k) => FALSE
      BY LockEffect DEF CallInv
    <3>2. ASSUME SignupUnlock(k) PROVE lock[t] = k /\ call'[k].at = "idle"
      BY <3>2, UnlockEffect DEF Abandoned, Moved, CallInv
    <3>3. ASSUME SignupDropped(k) PROVE lock[t] = k /\ call'[k].at = "idle"
      BY <3>3, DropEffect DEF Abandoned, Moved
    <3>4. SignupLock(k) \/ SignupUnlock(k) \/ SignupDropped(k)
      BY <2>4 DEF SignupStep, SignupPoll, SignupReRead, SignupRead, RegisterCheck, RegisterFind,
                  RegisterWrite, RegisterIssue, SignupKeep, SignupSpend, store
    <3>5. QED BY <3>1, <3>2, <3>3, <3>4
  <2>5. ASSUME NEW k \in Call, NEW u \in Ticket, NEW n \in Name, SignupStart(k, u, n) PROVE FALSE
    BY <2>5 DEF SignupStart, store
  <2>6. ASSUME NEW u \in Ticket,
               SignupReplay(u) \/ LockLapses(u) \/ TicketLapses(u) \/ ResultLapses(u)
        PROVE  LockLapses(t)
    <3>1. LockLapses(u)
      BY <2>6 DEF SignupReplay, TicketLapses, ResultLapses, store
    <3>2. u = t BY <3>1 DEF LockLapses
    <3>3. QED BY <3>1, <3>2
  <2>7. QED BY <2>1, <2>2, <2>3, <2>4, <2>5, <2>6 DEF Next
<1>2. QED BY <1>1, SignUpInvariant, PTL DEF Spec, ReleasedByHolder

-----------------------------------------------------------------------------
(* Session tokens. *)

\* An id is in one transaction at most until the commit gives it out; a refresh
\* has read a token that was given out, and so is what a wipe is to remove.
IdInv ==
  /\ \A r \in Request :
       /\ pc[r] \in Refreshing => old[r] \in given /\ access[r] \in Token
       /\ pc[r] = "leaving" => access[r] \in Token
       /\ pc[r] \in {"inserted", "rotated"} => new[r] \in Token
       /\ new[r] \notin given
       /\ wipe[r] \subseteq given
  /\ \A q, r \in Request : new[q] = new[r] /\ new[r] # NoToken => q = r

\* A token descends from an issued one, an id not yet given out from none; a
\* refresh under way has read a token of a login that lives or that it survives.
FamilyInv ==
  /\ \A t \in Token \ given : family[t] = t
  /\ \A t \in given : family[t] \in given
  /\ dead \subseteq given
  /\ \A r \in Request :
       pc[r] \in Refreshing /\ family[old[r]] \in dead => family[old[r]] \in escaped
  /\ OnlyOverlapSurvives

\* Whoever is past revoke_token has left an entry for the access token it was
\* called with, or was refused one.
RevokeInv ==
  \A r \in Request :
    pc[r] \in {"revoked", "inserted", "rotated"} => blacklist[access[r]] # "no"

TokenInv == TokenTypeOK /\ IdInv /\ FamilyInv /\ RevokeInv

-----------------------------------------------------------------------------
\* Every variable keeps its type, and a row lock its transaction.
LEMMA TokenTypeNext ==
  ASSUME TokenTypeOK, IdInv, [TokenNext]_tokenVars
  PROVE  TokenTypeOK'
<1> USE TokenAssumption DEF TokenTypeOK, IdInv, Refreshing, Age
<1>1. CASE UNCHANGED tokenVars
  BY <1>1 DEF tokenVars, tokenRowVars, tokenCallVars, histVars
<1>2. ASSUME NEW t \in Token,
             IssueTokens(t) \/ HardDeleteToken(t) \/ GraceEnds(t)
      PROVE  TokenTypeOK'
  BY <1>2 DEF IssueTokens, HardDeleteToken, GraceEnds, DeleteRows,
              Unissued, tokenCallVars, histVars
<1>3. ASSUME NEW r \in Request, TokenStep(r) PROVE TokenTypeOK'
  <2>1. CASE \E t, a \in Token : RefreshRead(r, t, a)
    BY <2>1 DEF RefreshRead, tokenRowVars, histVars
  <2>2. CASE RefreshRevoke(r)
    BY <2>2 DEF RefreshRevoke, tokenRowVars, histVars
  <2>3. CASE RefreshRotate(r)
    BY <2>3 DEF RefreshRotate, tokenRowVars, histVars
  <2>4. CASE RefreshCommit(r)
    <3>1. new[r] \in Token /\ old[r] \in Token /\ \A t \in Token : rowLock[t] = r => t = old[r]
      BY <2>4 DEF RefreshCommit
    <3>2. /\ present' \subseteq given' /\ given' \subseteq Token
          /\ replacedAt' \in [Token -> Age] /\ replacedBy' \in [Token -> Token \cup {NoToken}]
          /\ family' \in [Token -> Token] /\ UNCHANGED <<blacklist, dead, escaped>>
      BY <2>4, <3>1 DEF RefreshCommit
    <3>3. QED BY <2>4, <3>1, <3>2 DEF RefreshCommit, Forget
  <2>5. CASE CallAborts(r)
    BY <2>5 DEF CallAborts, Forget, tokenRowVars, histVars
  <2>6. CASE \E t \in Token : RefreshInsert(r, t)
    BY <2>6 DEF RefreshInsert, tokenRowVars, histVars
  <2>7. CASE \E a \in Token : LogoutBegin(r, a)
    BY <2>7 DEF LogoutBegin, tokenRowVars, histVars
  <2>8. CASE ReuseDetected(r)
    BY <2>8 DEF ReuseDetected, tokenRowVars, histVars
  <2>9. CASE Wipe(r)
    BY <2>9 DEF Wipe, DeleteRows, Bury, Forget
  <2>10. QED
    BY <1>3, <2>1, <2>2, <2>3, <2>4, <2>5, <2>6, <2>7, <2>8, <2>9 DEF TokenStep
<1>4. QED BY <1>1, <1>2, <1>3 DEF TokenNext

\* An id is taken by one transaction and given out by its commit.
LEMMA IdNext ==
  ASSUME TokenTypeOK, IdInv, [TokenNext]_tokenVars
  PROVE  IdInv'
<1> USE TokenAssumption DEF TokenTypeOK, IdInv, Refreshing
<1>1. CASE UNCHANGED tokenVars
  BY <1>1 DEF tokenVars, tokenRowVars, tokenCallVars
<1>2. ASSUME NEW t \in Token,
             IssueTokens(t) \/ HardDeleteToken(t) \/ GraceEnds(t)
      PROVE  IdInv'
  BY <1>2 DEF IssueTokens, HardDeleteToken, GraceEnds, Unissued,
              tokenCallVars
<1>3. ASSUME NEW r \in Request, TokenStep(r) PROVE IdInv'
  <2>1. CASE \E t, a \in Token : RefreshRead(r, t, a)
    BY <2>1 DEF RefreshRead, tokenRowVars
  <2>2. CASE RefreshRevoke(r) \/ RefreshRotate(r)
    BY <2>2 DEF RefreshRevoke, RefreshRotate, tokenRowVars
  <2>3. CASE RefreshCommit(r)
    BY <2>3 DEF RefreshCommit, Forget
  <2>4. CASE CallAborts(r)
    BY <2>4 DEF CallAborts, Forget, tokenRowVars
  <2>5. CASE \E t \in Token : RefreshInsert(r, t)
    BY <2>5 DEF RefreshInsert, Unissued, tokenRowVars
  <2>6. CASE \E a \in Token : LogoutBegin(r, a)
    BY <2>6 DEF LogoutBegin, tokenRowVars
  <2>7. CASE ReuseDetected(r)
    BY <2>7 DEF ReuseDetected, tokenRowVars
  <2>8. CASE Wipe(r)
    BY <2>8 DEF Wipe, Forget
  <2>9. QED BY <1>3, <2>1, <2>2, <2>3, <2>4, <2>5, <2>6, <2>7, <2>8 DEF TokenStep
<1>4. QED BY <1>1, <1>2, <1>3 DEF TokenNext

\* A wipe leaves of its logins only those it overlapped with.
LEMMA WipeBuries ==
  ASSUME TokenTypeOK, IdInv, FamilyInv, NEW r \in Request, Wipe(r)
  PROVE  FamilyInv'
<1> USE DEF TokenTypeOK, IdInv, FamilyInv, OnlyOverlapSurvives
<1> DEFINE wiped == {family[t] : t \in wipe[r]}
           racing == {family[t] : t \in present \ wipe[r]}
                       \cup {family[old[q]] : q \in {p \in Request :
                                                       pc[p] \in Refreshing}}
<1>1. /\ dead' = dead \cup wiped
      /\ escaped' = (escaped \ wiped) \cup (wiped \cap racing)
      /\ family' = family /\ given' = given
      /\ present' = present \ wipe[r]
  BY DEF Wipe, Bury, DeleteRows
<1>2. \A q \in Request : pc'[q] \in Refreshing =>
        pc[q] \in Refreshing /\ old'[q] = old[q]
  BY DEF Wipe, Forget, Refreshing
<1>3. wiped \subseteq given OBVIOUS
<1>4. \A f \in racing : (f \in dead => f \in escaped) => (f \in dead' => f \in escaped')
  BY <1>1
<1>5. \A t \in present' : family'[t] \in dead' => family'[t] \in escaped'
  BY <1>1, <1>4
<1>6. \A q \in Request :
        pc'[q] \in Refreshing /\ family'[old'[q]] \in dead' =>
          family'[old'[q]] \in escaped'
  BY <1>1, <1>2, <1>4
<1>7. QED BY <1>1, <1>3, <1>5, <1>6

\* No step but the overlapping refresh brings a wiped login back.
LEMMA FamilyNext ==
  ASSUME TokenTypeOK, IdInv, FamilyInv, [TokenNext]_tokenVars
  PROVE  FamilyInv'
<1> USE TokenAssumption DEF TokenTypeOK, IdInv, FamilyInv, OnlyOverlapSurvives,
            Refreshing
<1>1. CASE UNCHANGED tokenVars
  BY <1>1 DEF tokenVars, tokenRowVars, tokenCallVars, histVars
<1>2. ASSUME NEW t \in Token,
             IssueTokens(t) \/ HardDeleteToken(t) \/ GraceEnds(t)
      PROVE  FamilyInv'
  BY <1>2 DEF IssueTokens, HardDeleteToken, GraceEnds, DeleteRows,
              Unissued, tokenCallVars, histVars
<1>3. ASSUME NEW r \in Request, TokenStep(r) PROVE FamilyInv'
  <2>1. CASE \E t, a \in Token : RefreshRead(r, t, a)
    BY <2>1 DEF RefreshRead, tokenRowVars, histVars
  <2>2. CASE RefreshRevoke(r) \/ RefreshRotate(r)
    BY <2>2 DEF RefreshRevoke, RefreshRotate, tokenRowVars, histVars
  <2>3. CASE RefreshCommit(r)
    <3>1. /\ pc[r] \in Refreshing /\ new[r] \in Token /\ new[r] \notin given
          /\ given' = given \cup {new[r]} /\ present' = present \cup {new[r]}
          /\ family' = [family EXCEPT ![new[r]] = family[old[r]]]
          /\ UNCHANGED <<dead, escaped>>
      BY <2>3 DEF RefreshCommit
    <3>2. \A q \in Request : pc'[q] \in Refreshing =>
        pc[q] \in Refreshing /\ old'[q] = old[q]
      BY <2>3 DEF RefreshCommit, Forget
    <3>3. QED BY <3>1, <3>2
  <2>4. CASE CallAborts(r)
    BY <2>4 DEF CallAborts, Forget, tokenRowVars, histVars
  <2>5. CASE \E t \in Token : RefreshInsert(r, t)
    BY <2>5 DEF RefreshInsert, tokenRowVars, histVars
  <2>6. CASE \E a \in Token : LogoutBegin(r, a)
    BY <2>6 DEF LogoutBegin, tokenRowVars, histVars
  <2>7. CASE ReuseDetected(r)
    BY <2>7 DEF ReuseDetected, tokenRowVars, histVars
  <2>8. CASE Wipe(r)
    BY <2>8, WipeBuries
  <2>9. QED BY <1>3, <2>1, <2>2, <2>3, <2>4, <2>5, <2>6, <2>7, <2>8 DEF TokenStep
<1>4. QED BY <1>1, <1>2, <1>3 DEF TokenNext

\* The blacklist is written before the rotation is committed, and keeps its
\* entries.
LEMMA RevokeNext ==
  ASSUME TokenTypeOK, IdInv, RevokeInv, [TokenNext]_tokenVars
  PROVE  RevokeInv'
<1> USE TokenAssumption DEF TokenTypeOK, IdInv, RevokeInv, Refreshing
<1>1. CASE UNCHANGED tokenVars
  BY <1>1 DEF tokenVars, tokenRowVars, tokenCallVars
<1>2. ASSUME NEW t \in Token,
             IssueTokens(t) \/ HardDeleteToken(t) \/ GraceEnds(t)
      PROVE  RevokeInv'
  BY <1>2 DEF IssueTokens, HardDeleteToken, GraceEnds, tokenCallVars,
              Age
<1>3. ASSUME NEW r \in Request, TokenStep(r) PROVE RevokeInv'
  <2>1. CASE \E t, a \in Token : RefreshRead(r, t, a)
    BY <2>1 DEF RefreshRead, tokenRowVars
  <2>2. CASE RefreshRevoke(r)
    BY <2>2 DEF RefreshRevoke, tokenRowVars
  <2>3. CASE RefreshRotate(r)
    BY <2>3 DEF RefreshRotate, tokenRowVars
  <2>4. CASE RefreshCommit(r)
    BY <2>4 DEF RefreshCommit, Forget
  <2>5. CASE CallAborts(r)
    BY <2>5 DEF CallAborts, Forget, tokenRowVars
  <2>6. CASE \E t \in Token : RefreshInsert(r, t)
    BY <2>6 DEF RefreshInsert, tokenRowVars
  <2>7. CASE \E a \in Token : LogoutBegin(r, a)
    BY <2>7 DEF LogoutBegin, tokenRowVars
  <2>8. CASE ReuseDetected(r)
    BY <2>8 DEF ReuseDetected, tokenRowVars
  <2>9. CASE Wipe(r)
    BY <2>9 DEF Wipe, Forget
  <2>10. QED
    BY <1>3, <2>1, <2>2, <2>3, <2>4, <2>5, <2>6, <2>7, <2>8, <2>9 DEF TokenStep
<1>4. QED BY <1>1, <1>2, <1>3 DEF TokenNext

-----------------------------------------------------------------------------
\* The inductive invariant of the session tokens.
THEOREM TokenInvariant == TokenSpec => []TokenInv
<1>1. TokenInit => TokenInv
  BY TokenAssumption DEF TokenInit, TokenInv, TokenTypeOK, IdInv, FamilyInv, RevokeInv,
         OnlyOverlapSurvives, Age, Refreshing
<1>2. TokenInv /\ [TokenNext]_tokenVars => TokenInv'
  BY TokenTypeNext, IdNext, FamilyNext, RevokeNext DEF TokenInv
<1>3. QED BY <1>1, <1>2, PTL DEF TokenSpec

\* Every variable keeps its type, only issued rows are visible, and a row lock
\* belongs to the refresh_access_token that rotates that row.
THEOREM TokenTypes == TokenSpec => []TokenTypeOK
<1>1. TokenInv => TokenTypeOK BY DEF TokenInv
<1>2. QED BY <1>1, TokenInvariant, PTL

\* After logout, account deletion or detected reuse no row of the login is left,
\* unless a refresh_access_token of that login overlapped the DELETE.
THEOREM WipedStaysOut == TokenSpec => []OnlyOverlapSurvives
<1>1. TokenInv => OnlyOverlapSurvives BY DEF TokenInv, FamilyInv
<1>2. QED BY <1>1, TokenInvariant, PTL

\* Until refresh_access_token commits a new pair the access token it was called
\* with is on the blacklist, unless Redis refused the entry or the token had
\* expired; entries stay.
THEOREM TradedIsRevoked == TokenSpec => RefreshRevokesAccess
<1> DEFINE Given == \A r \in Request : new[r] \in given' \ given => blacklist[access[r]] # "no"
           Kept == \A a \in Token : blacklist[a] # "no" => blacklist'[a] # "no"
<1>1. ASSUME TokenInv, [TokenNext]_tokenVars PROVE Given /\ Kept
  <2> USE <1>1, TokenAssumption DEF TokenInv, TokenTypeOK, IdInv, RevokeInv, Refreshing
  <2>1. CASE given' = given /\ blacklist' = blacklist
    BY <2>1
  <2>2. ASSUME NEW t \in Token, IssueTokens(t) PROVE Given /\ Kept
    BY <2>2 DEF IssueTokens, Unissued
  <2>3. ASSUME NEW r \in Request, RefreshCommit(r) PROVE Given /\ Kept
    <3>1. given' = given \cup {new[r]} /\ blacklist' = blacklist
          /\ pc[r] \in {"inserted", "rotated"} /\ new[r] \in Token
      BY <2>3 DEF RefreshCommit
    <3>2. \A q \in Request : new[q] \in given' \ given => q = r
      BY <3>1
    <3>3. QED BY <3>1, <3>2
  <2>4. ASSUME NEW r \in Request, RefreshRevoke(r) \/ Wipe(r) PROVE Given /\ Kept
    <3>1. given' = given
      BY <2>4 DEF RefreshRevoke, Wipe, tokenRowVars
    <3>2. Kept
      BY <2>4 DEF RefreshRevoke, Wipe
    <3>3. QED BY <3>1, <3>2
  <2>5. ASSUME ~ \E t \in Token : IssueTokens(t),
               ~ \E r \in Request : RefreshCommit(r) \/ RefreshRevoke(r) \/ Wipe(r)
        PROVE  given' = given /\ blacklist' = blacklist
    BY <1>1, <2>5 DEF TokenNext, TokenStep, HardDeleteToken, GraceEnds, RefreshRead, RefreshRotate,
       RefreshInsert, CallAborts, LogoutBegin, ReuseDetected, tokenVars, tokenRowVars
  <2>6. QED BY <2>1, <2>2, <2>3, <2>4, <2>5
<1>2. QED BY <1>1, TokenInvariant, PTL DEF TokenSpec, RefreshRevokesAccess

-----------------------------------------------------------------------------
(* Send tickets. *)

TicketRows == row \in [TicketId -> {"none", "active", "redeemed", "expired", "deleted"}]
ServedType == served \in [TicketId -> Nat]

WinnerInv ==
  /\ \A c \in SendCall : stage[c] = "won" =>
       row[toRedeem[c]] \in {"redeemed", "deleted"} /\ served[toRedeem[c]] = 0
  /\ \A c, d \in SendCall :
       stage[c] = "won" /\ stage[d] = "won" /\ toRedeem[c] = toRedeem[d] => c = d
  /\ \A t \in TicketId : row[t] \in {"none", "active"} => served[t] = 0

TicketInv == TicketRows /\ ServedType /\ CallType /\ WinnerInv

-----------------------------------------------------------------------------
\* The calls keep their type.
LEMMA CallTypeNext ==
  ASSUME CallType, [SendNext]_sendVars
  PROVE  CallType'
<1> USE DEF CallType
<1>1. CASE UNCHANGED sendVars BY <1>1 DEF sendVars, callVars
<1>2. ASSUME NEW c \in SendCall, CallStep(c) PROVE CallType'
  <2> USE <1>2 DEF At, Leave
  <2>1. CASE \E n \in Nonce : CreateNonce(c, n)
    BY <2>1 DEF CreateNonce, Admit, Creating, Redeeming
  <2>2. CASE CreateCount(c)
    BY <2>2 DEF CreateCount, Creating, Redeeming
  <2>3. CASE CreateVideo(c)
    BY <2>3 DEF CreateVideo, Creating, Redeeming
  <2>4. CASE \E t \in TicketId : CreateInsert(c, t)
    BY <2>4 DEF CreateInsert, Creating, Redeeming
  <2>5. CASE \E t \in TicketId : RedeemRead(c, t)
    BY <2>5 DEF RedeemRead, Creating, Redeeming
  <2>6. CASE RedeemExpire(c)
    BY <2>6 DEF RedeemExpire, Creating, Redeeming
  <2>7. CASE RedeemVideo(c)
    BY <2>7 DEF RedeemVideo, Creating, Redeeming
  <2>8. CASE RedeemSwap(c)
    BY <2>8 DEF RedeemSwap, Creating, Redeeming
  <2>9. CASE RedeemSign(c)
    BY <2>9 DEF RedeemSign, Creating, Redeeming
  <2>10. CASE CallFails(c)
    BY <2>10 DEF CallFails, Creating, Redeeming
  <2>11. QED BY <2>1, <2>2, <2>3, <2>4, <2>5, <2>6, <2>7, <2>8, <2>9, <2>10 DEF CallStep
<1>3. ASSUME NEW n \in Nonce, NonceLapses(n) PROVE CallType'
  BY <1>3 DEF NonceLapses, callVars
<1>4. CASE \/ \E t \in TicketId : HardDeleteTicket(t) \/ TicketExpires(t)
           \/ VideoChanges \/ NewDay
  BY <1>4 DEF HardDeleteTicket, TicketExpires, VideoChanges, NewDay,
              callVars
<1>5. QED BY <1>1, <1>2, <1>3, <1>4 DEF SendNext

\* A call that is not at work on the ticket rows, and the clock, change
\* neither rows nor the URLs handed out, and make nobody a winner.
Aside ==
  /\ UNCHANGED <<row, served>>
  /\ \A c \in SendCall : stage'[c] = "won" => stage[c] = "won" /\ toRedeem'[c] = toRedeem[c]

\* Every step is one of five: aside, a new ticket, a row that leaves "active"
\* or is deleted, a compare-and-swap that succeeds, or a URL handed out.
Issue(t) ==
  /\ row[t] = "none" /\ row' = [row EXCEPT ![t] = "active"]
Retire(t) ==
  \/ row[t] = "active" /\ row' = [row EXCEPT ![t] = "expired"]
  \/ row[t] \in {"active", "redeemed", "expired"} /\ row' = [row EXCEPT ![t] = "deleted"]
Win(c) ==
  /\ stage[c] = "swapping" /\ row[toRedeem[c]] = "active"
  /\ row' = [row EXCEPT ![toRedeem[c]] = "redeemed"]
  /\ stage' = [stage EXCEPT ![c] = "won"] /\ UNCHANGED <<toRedeem, served>>
Pay(c) ==
  /\ stage[c] = "won"
  /\ served' = [served EXCEPT ![toRedeem[c]] = @ + 1]
  /\ stage' = [stage EXCEPT ![c] = "idle"]
  /\ toRedeem' = [toRedeem EXCEPT ![c] = NoTicket] /\ UNCHANGED row
NoNewWinner ==
  \A c \in SendCall : stage'[c] = "won" => stage[c] = "won" /\ toRedeem'[c] = toRedeem[c]

\* The classification of steps that the two main lemmas share.
LEMMA StepKinds ==
  ASSUME CallType, TicketRows, [SendNext]_sendVars
  PROVE  \/ Aside
         \/ \E t \in TicketId : (Issue(t) \/ Retire(t)) /\ UNCHANGED served /\ NoNewWinner
         \/ \E c \in SendCall : Win(c) \/ Pay(c)
<1> DEFINE Goal == \/ Aside
                   \/ \E t \in TicketId : (Issue(t) \/ Retire(t)) /\ UNCHANGED served
                                          /\ NoNewWinner
                   \/ \E c \in SendCall : Win(c) \/ Pay(c)
<1> USE DEF CallType
<1>1. CASE UNCHANGED sendVars BY <1>1 DEF sendVars, callVars, rowVars, Aside
<1>2. ASSUME NEW c \in SendCall, CallStep(c) PROVE Goal
  <2> USE <1>2 DEF At, Leave
  <2>1. CASE \E n \in Nonce : CreateNonce(c, n)
    BY <2>1 DEF CreateNonce, Admit, Aside, rowVars
  <2>2. CASE CreateCount(c)
    BY <2>2 DEF CreateCount, Aside, rowVars
  <2>3. CASE CreateVideo(c)
    BY <2>3 DEF CreateVideo, Aside, rowVars
  <2>4. ASSUME NEW t \in TicketId, CreateInsert(c, t) PROVE Goal
    <3>1. Issue(t) /\ UNCHANGED served BY <2>4 DEF CreateInsert, Issue
    <3>2. NoNewWinner BY <2>4 DEF CreateInsert, NoNewWinner
    <3>3. QED BY <3>1, <3>2
  <2>5. CASE \E t \in TicketId : RedeemRead(c, t)
    BY <2>5 DEF RedeemRead, Aside, rowVars
  <2>6. ASSUME RedeemExpire(c) PROVE Goal
    <3>1. NoNewWinner /\ UNCHANGED served BY <2>6 DEF RedeemExpire, NoNewWinner
    <3>2. toRedeem[c] \in TicketId BY <2>6 DEF RedeemExpire, Redeeming
    <3>3. CASE UNCHANGED row BY <3>1, <3>3 DEF Aside, NoNewWinner
    <3>4. CASE row' # row
      <4>1. Retire(toRedeem[c]) BY <2>6, <3>2, <3>4 DEF RedeemExpire, Retire, TicketRows
      <4>2. QED BY <3>1, <3>2, <4>1
    <3>5. QED BY <3>3, <3>4
  <2>7. CASE RedeemVideo(c)
    BY <2>7 DEF RedeemVideo, Aside, rowVars
  <2>8. ASSUME RedeemSwap(c) PROVE Goal
    <3>1. CASE row[toRedeem[c]] = "active"
      <4>1. Win(c) BY <2>8, <3>1 DEF RedeemSwap, Win
      <4>2. QED BY <4>1
    <3>2. CASE row[toRedeem[c]] # "active" BY <2>8, <3>2 DEF RedeemSwap, Aside
    <3>3. QED BY <3>1, <3>2
  <2>9. ASSUME RedeemSign(c) PROVE Goal
    <3>1. Pay(c) BY <2>9 DEF RedeemSign, Pay, rowVars
    <3>2. QED BY <3>1
  <2>10. CASE CallFails(c)
    BY <2>10 DEF CallFails, Aside, rowVars
  <2>11. QED BY <2>1, <2>2, <2>3, <2>4, <2>5, <2>6, <2>7, <2>8, <2>9, <2>10 DEF CallStep
<1>3. ASSUME NEW t \in TicketId, HardDeleteTicket(t) PROVE Goal
  <2>1. Retire(t) /\ UNCHANGED served BY <1>3 DEF HardDeleteTicket, Rows, Retire
  <2>2. NoNewWinner BY <1>3 DEF HardDeleteTicket, callVars, NoNewWinner
  <2>3. QED BY <2>1, <2>2
<1>4. CASE \/ \E t \in TicketId : TicketExpires(t)
           \/ \E n \in Nonce : NonceLapses(n)
           \/ VideoChanges \/ NewDay
  BY <1>4 DEF TicketExpires, NonceLapses, VideoChanges, NewDay, rowVars,
              callVars, Aside
<1>5. QED BY <1>1, <1>2, <1>3, <1>4 DEF SendNext

-----------------------------------------------------------------------------
\* Rows and counters keep their types, and winners stay alone.
LEMMA TicketInvNext ==
  ASSUME TicketInv, [SendNext]_sendVars
  PROVE  TicketInv'
<1> USE DEF TicketInv
<1>1. CallType' BY CallTypeNext
<1>2. CASE Aside
  BY <1>1, <1>2 DEF Aside, TicketRows, ServedType, WinnerInv
<1>3. ASSUME NEW t \in TicketId, Issue(t) \/ Retire(t), UNCHANGED served, NoNewWinner
      PROVE  TicketInv'
  <2>1. TicketRows' /\ ServedType' BY <1>3 DEF Issue, Retire, TicketRows, ServedType
  <2>2. \A c \in SendCall : stage'[c] = "won" =>
           row'[toRedeem'[c]] \in {"redeemed", "deleted"} /\ served'[toRedeem'[c]] = 0
    BY <1>3 DEF Issue, Retire, TicketRows, WinnerInv, NoNewWinner, CallType, Redeeming
  <2>3. \A c, d \in SendCall :
       stage'[c] = "won" /\ stage'[d] = "won" /\ toRedeem'[c] = toRedeem'[d] => c = d
    BY <1>3 DEF WinnerInv, NoNewWinner
  <2>4. \A x \in TicketId : row'[x] \in {"none", "active"} => served'[x] = 0
    BY <1>3 DEF Issue, Retire, TicketRows, WinnerInv
  <2>5. QED BY <1>1, <2>1, <2>2, <2>3, <2>4 DEF WinnerInv
<1>4. ASSUME NEW c \in SendCall, Win(c) PROVE TicketInv'
  <2>0. toRedeem[c] \in TicketId BY <1>4 DEF Win, CallType, Redeeming
  <2>1. TicketRows' /\ ServedType' BY <1>4 DEF Win, TicketRows, ServedType
  <2>2. \A d \in SendCall : stage'[d] = "won" =>
           row'[toRedeem'[d]] \in {"redeemed", "deleted"} /\ served'[toRedeem'[d]] = 0
    BY <1>4, <2>0 DEF Win, TicketRows, WinnerInv, CallType, Redeeming
  <2>3. \A d, e \in SendCall :
       stage'[d] = "won" /\ stage'[e] = "won" /\ toRedeem'[d] = toRedeem'[e] => d = e
    BY <1>4, <2>0 DEF Win, WinnerInv, CallType
  <2>4. \A x \in TicketId : row'[x] \in {"none", "active"} => served'[x] = 0
    BY <1>4 DEF Win, TicketRows, WinnerInv
  <2>5. QED BY <1>1, <2>1, <2>2, <2>3, <2>4 DEF WinnerInv
<1>5. ASSUME NEW c \in SendCall, Pay(c) PROVE TicketInv'
  <2>0. toRedeem[c] \in TicketId BY <1>5 DEF Pay, CallType, Redeeming
  <2>1. TicketRows' /\ ServedType' BY <1>5, <2>0 DEF Pay, TicketRows, ServedType
  <2>2. \A d \in SendCall :
          stage'[d] = "won" => d # c /\ stage[d] = "won" /\ toRedeem'[d] = toRedeem[d]
    BY <1>5 DEF Pay, CallType
  <2>3. \A d \in SendCall : stage'[d] = "won" =>
           row'[toRedeem'[d]] \in {"redeemed", "deleted"} /\ served'[toRedeem'[d]] = 0
    BY <1>5, <2>0, <2>2 DEF Pay, WinnerInv, ServedType, CallType, Redeeming
  <2>4. \A d, e \in SendCall :
       stage'[d] = "won" /\ stage'[e] = "won" /\ toRedeem'[d] = toRedeem'[e] => d = e
    BY <2>2 DEF WinnerInv
  <2>5. \A x \in TicketId : row'[x] \in {"none", "active"} => served'[x] = 0
    BY <1>5, <2>0 DEF Pay, WinnerInv, ServedType
  <2>6. QED BY <1>1, <2>1, <2>3, <2>4, <2>5 DEF WinnerInv
<1>6. QED BY <1>2, <1>3, <1>4, <1>5, StepKinds

\* Whoever won a ticket is alone with it, and nobody was served from it.
THEOREM WinnersAreAlone == SendSpec => []TicketInv
<1>1. SendInit => TicketInv
  BY TicketAssumption DEF SendInit, TicketInv, TicketRows, ServedType, CallType, WinnerInv,
         Creating, Redeeming
<1>2. TicketInv /\ [SendNext]_sendVars => TicketInv' BY TicketInvNext
<1>3. QED BY <1>1, <1>2, PTL DEF SendSpec

\* Every step of the handlers is a step of the promised ticket, or none.
LEMMA StepSimulates ==
  ASSUME TicketInv, [SendNext]_sendVars
  PROVE  [Promise!Next]_(Promise!vars)
<1> USE DEF TicketInv, Promise!vars
<1>1. CASE Aside BY <1>1 DEF Aside
<1>2. ASSUME NEW t \in TicketId, Issue(t) \/ Retire(t), UNCHANGED served PROVE Promise!Next
  BY <1>2 DEF Issue, Retire, Promise!Next, Promise!Move
<1>3. ASSUME NEW c \in SendCall, Win(c) PROVE Promise!Next
  <2>1. toRedeem[c] \in TicketId BY <1>3 DEF Win, CallType, Redeeming
  <2>2. Promise!Move(toRedeem[c], {"active"}, "redeemed") BY <1>3 DEF Win, Promise!Move
  <2>3. QED BY <2>1, <2>2 DEF Promise!Next
<1>4. ASSUME NEW c \in SendCall, Pay(c) PROVE Promise!Next
  <2>1. toRedeem[c] \in TicketId BY <1>4 DEF Pay, CallType, Redeeming
  <2>2. row[toRedeem[c]] \in {"redeemed", "deleted"} /\ served[toRedeem[c]] = 0
    BY <1>4 DEF Pay, WinnerInv
  <2>3. Promise!Serve(toRedeem[c])
    BY <1>4, <2>1, <2>2 DEF Pay, Promise!Serve, ServedType
  <2>4. QED BY <2>1, <2>3 DEF Promise!Next
<1>5. QED BY <1>1, <1>2, <1>3, <1>4, StepKinds

\* Redemption is single-use: the two handlers, however their calls interleave,
\* implement OneTimeTicket.
THEOREM ImplementsPromise == SendSpec => SingleUse
<1>1. SendInit => Promise!Init BY DEF SendInit, Promise!Init
<1>2. TicketInv /\ [SendNext]_sendVars => [Promise!Next]_(Promise!vars)
  BY StepSimulates
<1>3. QED BY <1>1, <1>2, WinnersAreAlone, PTL DEF SendSpec, SingleUse, Promise!Spec

-----------------------------------------------------------------------------
(* Types and the limits on creation. *)

TicketStores ==
  /\ past \subseteq TicketId /\ nonces \subseteq Nonce /\ video \in {"published", "gone"}
  /\ today \subseteq Rows

\* The calls that are creating a ticket with the nonce.
Carrying(n) == {c \in SendCall : nonce[c] = n}

\* The calls that the check let pass: the one that set the key that is there,
\* and one for each key that lapsed and each check that was skipped.
LetPass(n) == (IF n \in nonces THEN 1 ELSE 0) + openings[n]

\* A call that passed has made at most one ticket, and none while it is under way.
NonceInv ==
  /\ minted \in [Nonce -> Nat] /\ openings \in [Nonce -> 0..MaxOpenings]
  /\ \A n \in Nonce : minted[n] + Cardinality(Carrying(n)) <= LetPass(n)

\* The calls that have passed the count and not yet inserted.
Counted == {c \in SendCall : stage[c] \in {"counted", "inserting"}}

CapInv ==
  /\ Counted # {} => DailyCap > 0
  /\ today # {} => Cardinality(today) + Cardinality(Counted) < DailyCap + Cardinality(SendCall)

LimitInv == TicketInv /\ TicketStores /\ NonceInv /\ CapInv

\* The stores keep their types, and only rows that exist are of today.
LEMMA TicketStoresNext ==
  ASSUME TicketInv, TicketStores, [SendNext]_sendVars
  PROVE  TicketStores'
<1> USE DEF TicketInv, TicketStores, Rows, TicketRows, nonceVars
<1>1. CASE UNCHANGED sendVars BY <1>1 DEF sendVars, rowVars
<1>2. ASSUME NEW c \in SendCall, CallStep(c) PROVE TicketStores'
  <2>1. CASE \E n \in Nonce : CreateNonce(c, n)
    BY <2>1 DEF CreateNonce, rowVars
  <2>2. CASE CreateCount(c) \/ CreateVideo(c) \/ RedeemVideo(c) \/ RedeemSign(c)
                \/ CallFails(c)
    BY <2>2 DEF CreateCount, CreateVideo, RedeemVideo, RedeemSign,
                CallFails, rowVars
  <2>3. CASE \E t \in TicketId : CreateInsert(c, t)
    BY <2>3 DEF CreateInsert
  <2>4. CASE \E t \in TicketId : RedeemRead(c, t)
    BY <2>4 DEF RedeemRead, rowVars
  <2>5. CASE RedeemExpire(c) \/ RedeemSwap(c)
    BY <2>5 DEF RedeemExpire, RedeemSwap
  <2>6. QED BY <1>2, <2>1, <2>2, <2>3, <2>4, <2>5 DEF CallStep
<1>3. CASE \E t \in TicketId : HardDeleteTicket(t) \/ TicketExpires(t)
  BY <1>3 DEF HardDeleteTicket, TicketExpires
<1>4. CASE (\E n \in Nonce : NonceLapses(n)) \/ VideoChanges \/ NewDay
  BY <1>4 DEF NonceLapses, VideoChanges, NewDay, rowVars
<1>5. QED BY <1>1, <1>2, <1>3, <1>4 DEF SendNext

\* How many calls carry a nonce is a number, and it grows by at most one with a
\* further call, falls by one with a call that is gone.
LEMMA CarryingCount ==
  ASSUME NEW n \in Nonce
  PROVE  /\ Cardinality(Carrying(n)) \in Nat /\ Cardinality(Carrying(n)') \in Nat
         /\ Carrying(n)' \subseteq Carrying(n) =>
              Cardinality(Carrying(n)') <= Cardinality(Carrying(n))
         /\ \A c \in SendCall : Carrying(n)' \subseteq Carrying(n) \cup {c} =>
              Cardinality(Carrying(n)') <= Cardinality(Carrying(n)) + 1
         /\ \A c \in Carrying(n) : Carrying(n)' = Carrying(n) \ {c} =>
              Cardinality(Carrying(n)') = Cardinality(Carrying(n)) - 1
<1>1. Carrying(n) \subseteq SendCall /\ Carrying(n)' \subseteq SendCall BY DEF Carrying
<1>2. IsFiniteSet(Carrying(n)) /\ IsFiniteSet(Carrying(n)')
  BY <1>1, FS_Subset, TicketAssumption
<1>3. Cardinality(Carrying(n)) \in Nat /\ Cardinality(Carrying(n)') \in Nat
  BY <1>2, FS_CardinalityType
<1>4. ASSUME NEW c \in SendCall, Carrying(n)' \subseteq Carrying(n) \cup {c}
      PROVE  Cardinality(Carrying(n)') <= Cardinality(Carrying(n)) + 1
  <2>1. /\ IsFiniteSet(Carrying(n) \cup {c})
        /\ Cardinality(Carrying(n) \cup {c}) \in
             {Cardinality(Carrying(n)), Cardinality(Carrying(n)) + 1}
    BY <1>2, FS_AddElement
  <2>2. Cardinality(Carrying(n)') <= Cardinality(Carrying(n) \cup {c})
    BY <1>4, <2>1, FS_Subset
  <2>3. QED BY <1>3, <2>1, <2>2
<1>5. QED BY <1>2, <1>3, <1>4, FS_Subset, FS_RemoveElement

\* Every ticket and every call under way with a nonce has its own pass.
LEMMA NonceInvNext ==
  ASSUME CallType, TicketStores, NonceInv, [SendNext]_sendVars
  PROVE  NonceInv'
<1> DEFINE Fewer == \A m \in Nonce : Carrying(m)' \subseteq Carrying(m)
<1> USE TicketAssumption DEF CallType, TicketStores, NonceInv
<1>1. ASSUME UNCHANGED nonceVars, Fewer PROVE NonceInv'
  <2>1. \A m \in Nonce : LetPass(m)' = LetPass(m) BY <1>1 DEF nonceVars, LetPass
  <2>2. \A m \in Nonce : LetPass(m) \in Nat BY DEF LetPass
  <2>3. \A m \in Nonce : minted'[m] + Cardinality(Carrying(m)') <= LetPass(m)'
    BY <1>1, <2>1, <2>2, CarryingCount DEF nonceVars
  <2>4. QED BY <1>1, <2>3 DEF nonceVars
<1>2. ASSUME NEW c \in SendCall, CallStep(c) PROVE NonceInv'
  <2>1. ASSUME NEW n \in Nonce, CreateNonce(c, n) PROVE NonceInv'
    <3>1. /\ Carrying(n)' \subseteq Carrying(n) \cup {c}
          /\ \A m \in Nonce \ {n} : Carrying(m)' \subseteq Carrying(m)
      BY <2>1 DEF CreateNonce, Admit, Carrying
    <3>2. \/ n \notin nonces /\ nonces' = nonces \cup {n} /\ openings' = openings
          \/ nonces' = nonces /\ Opens(n)
      BY <2>1 DEF CreateNonce
    <3>3. openings' \in [Nonce -> 0..MaxOpenings] BY <3>2 DEF Opens
    <3>4. minted' = minted BY <2>1 DEF CreateNonce
    <3>5. /\ LetPass(n) \in Nat /\ LetPass(n)' = LetPass(n) + 1
          /\ \A m \in Nonce \ {n} : LetPass(m) \in Nat /\ LetPass(m)' = LetPass(m)
      BY <3>2 DEF LetPass, Opens
    <3>6. minted'[n] + Cardinality(Carrying(n)') <= LetPass(n)'
      BY <3>1, <3>4, <3>5, CarryingCount
    <3>7. \A m \in Nonce \ {n} : minted'[m] + Cardinality(Carrying(m)') <= LetPass(m)'
      BY <3>1, <3>4, <3>5, CarryingCount
    <3>8. QED BY <3>3, <3>4, <3>6, <3>7
  <2>2. ASSUME NEW t \in TicketId, CreateInsert(c, t) PROVE NonceInv'
    <3>1. PICK n \in Nonce : n = nonce[c] /\ c \in Carrying(n)
      BY <2>2 DEF CreateInsert, Creating, Carrying
    <3>2. /\ Carrying(n)' = Carrying(n) \ {c}
          /\ \A m \in Nonce \ {n} : Carrying(m)' \subseteq Carrying(m)
      BY <2>2, <3>1 DEF CreateInsert, Leave, Carrying
    <3>3. minted' = [minted EXCEPT ![n] = @ + 1] BY <2>2, <3>1 DEF CreateInsert
    <3>4. \A m \in Nonce : LetPass(m) \in Nat /\ LetPass(m)' = LetPass(m)
      BY <2>2 DEF CreateInsert, LetPass
    <3>5. openings' = openings BY <2>2 DEF CreateInsert
    <3>6. minted'[n] + Cardinality(Carrying(n)') <= LetPass(n)'
      <4>1. /\ Cardinality(Carrying(n)) \in Nat
            /\ Cardinality(Carrying(n)') = Cardinality(Carrying(n)) - 1
        BY <3>1, <3>2, CarryingCount
      <4>2. minted'[n] = minted[n] + 1 /\ minted[n] \in Nat BY <3>3
      <4>3. minted[n] + Cardinality(Carrying(n)) <= LetPass(n) OBVIOUS
      <4>4. QED BY <3>4, <4>1, <4>2, <4>3
    <3>7. \A m \in Nonce \ {n} : minted'[m] + Cardinality(Carrying(m)') <= LetPass(m)'
      BY <3>2, <3>3, <3>4, CarryingCount
    <3>8. QED BY <3>1, <3>3, <3>5, <3>6, <3>7
  <2>3. CASE CreateCount(c) \/ CreateVideo(c) \/ RedeemVideo(c)
    BY <1>1, <2>3 DEF CreateCount, CreateVideo, RedeemVideo, Leave, Carrying
  <2>4. CASE (\E t \in TicketId : RedeemRead(c, t)) \/ RedeemExpire(c)
                \/ RedeemSwap(c)
                \/ RedeemSign(c) \/ CallFails(c)
    BY <1>1, <2>4 DEF RedeemRead, RedeemExpire, RedeemSwap, RedeemSign,
                      CallFails, Leave, Carrying
  <2>5. QED BY <1>2, <2>1, <2>2, <2>3, <2>4 DEF CallStep
<1>3. ASSUME NEW n \in Nonce, NonceLapses(n) PROVE NonceInv'
  <2>1. \A m \in Nonce : LetPass(m) \in Nat /\ LetPass(m)' = LetPass(m)
    BY <1>3 DEF NonceLapses, Opens, LetPass
  <2>2. Fewer /\ minted' = minted BY <1>3 DEF NonceLapses, callVars, Carrying
  <2>3. openings' \in [Nonce -> 0..MaxOpenings] BY <1>3 DEF NonceLapses, Opens
  <2>4. \A m \in Nonce : minted'[m] + Cardinality(Carrying(m)') <= LetPass(m)'
    BY <2>1, <2>2, CarryingCount
  <2>5. QED BY <2>2, <2>3, <2>4
<1>4. CASE \/ \E t \in TicketId : HardDeleteTicket(t) \/ TicketExpires(t)
           \/ VideoChanges \/ NewDay
  BY <1>1, <1>4 DEF HardDeleteTicket, TicketExpires, VideoChanges, NewDay,
                    callVars, Carrying
<1>5. CASE UNCHANGED sendVars BY <1>1, <1>5 DEF sendVars, callVars, Carrying
<1>6. QED BY <1>2, <1>3, <1>4, <1>5 DEF SendNext

\* Sets are counted here as they are in SendTicket.
LEMMA SameCardinality ==
  ASSUME NEW S
  PROVE  Cardinality(S) = Cardinality(S)
BY DEF Cardinality, Cardinality

\* What a step does to the rows of today and to the calls past the count: it
\* makes neither larger, or lets one call pass below the cap, or turns such a
\* call into a row.
LEMMA CapKinds ==
  ASSUME TicketInv, TicketStores, [SendNext]_sendVars
  PROVE  \/ today' \subseteq today /\ Counted' \subseteq Counted
         \/ /\ Cardinality(today) < DailyCap /\ today' = today
            /\ \E c \in SendCall : Counted' = Counted \cup {c}
         \/ \E c \in Counted, t \in TicketId \ today :
              today' = today \cup {t} /\ Counted' = Counted \ {c}
<1> DEFINE Goal == \/ today' \subseteq today /\ Counted' \subseteq Counted
                   \/ /\ Cardinality(today) < DailyCap /\ today' = today
                      /\ \E c \in SendCall : Counted' = Counted \cup {c}
                   \/ \E c \in Counted, t \in TicketId \ today :
                        today' = today \cup {t} /\ Counted' = Counted \ {c}
<1> USE DEF TicketInv, CallType
<1>1. CASE UNCHANGED sendVars BY <1>1 DEF sendVars, rowVars, callVars, Counted
<1>2. ASSUME NEW c \in SendCall, CallStep(c) PROVE Goal
  <2> USE DEF At, Leave, Counted
  <2>1. CASE \E n \in Nonce : CreateNonce(c, n) BY <2>1 DEF CreateNonce, Admit, rowVars
  <2>2. ASSUME CreateCount(c) PROVE Goal
    <3>1. CASE Cardinality(today) < DailyCap
      <4>1. Counted' = Counted \cup {c} BY <2>2, <3>1, SameCardinality DEF CreateCount
      <4>2. today' = today BY <2>2 DEF CreateCount, rowVars
      <4>3. QED BY <3>1, <4>1, <4>2
    <3>2. CASE ~(Cardinality(today) < DailyCap)
      BY <2>2, <3>2, SameCardinality DEF CreateCount, rowVars
    <3>3. QED BY <3>1, <3>2
  <2>3. CASE CreateVideo(c) BY <2>3 DEF CreateVideo, rowVars
  <2>4. ASSUME NEW t \in TicketId, CreateInsert(c, t) PROVE Goal
    <3>1. c \in Counted /\ Counted' = Counted \ {c} BY <2>4 DEF CreateInsert
    <3>2. t \notin today /\ today' = today \cup {t}
      BY <2>4 DEF CreateInsert, TicketStores, Rows
    <3>3. QED BY <3>1, <3>2
  <2>5. CASE \E t \in TicketId : RedeemRead(c, t) BY <2>5 DEF RedeemRead, rowVars
  <2>6. CASE RedeemExpire(c) BY <2>6 DEF RedeemExpire
  <2>7. CASE RedeemVideo(c) BY <2>7 DEF RedeemVideo, rowVars
  <2>8. CASE RedeemSwap(c) BY <2>8 DEF RedeemSwap
  <2>9. CASE RedeemSign(c) \/ CallFails(c)
    BY <2>9 DEF RedeemSign, CallFails, rowVars
  <2>10. QED BY <1>2, <2>1, <2>2, <2>3, <2>4, <2>5, <2>6, <2>7, <2>8, <2>9 DEF CallStep
<1>3. CASE \E t \in TicketId : HardDeleteTicket(t) \/ TicketExpires(t)
  BY <1>3 DEF HardDeleteTicket, TicketExpires, callVars, Counted
<1>4. CASE (\E n \in Nonce : NonceLapses(n)) \/ VideoChanges \/ NewDay
  BY <1>4 DEF NonceLapses, VideoChanges, NewDay, rowVars, callVars, Counted
<1>5. QED BY <1>1, <1>2, <1>3, <1>4 DEF SendNext

\* The rows of today and the calls past the count stay below the bound.
LEMMA CapInvNext ==
  ASSUME TicketInv, TicketStores, CapInv, [SendNext]_sendVars
  PROVE  CapInv'
<1> DEFINE n == Cardinality(today)  m == Cardinality(Counted)
           np == Cardinality(today')  mp == Cardinality(Counted')  k == Cardinality(SendCall)
<1>1. IsFiniteSet(today) /\ IsFiniteSet(Counted) /\ Counted \subseteq SendCall
  BY FS_Subset, TicketAssumption DEF TicketStores, Rows, Counted
<1>2. n \in Nat /\ m \in Nat /\ k \in Nat /\ DailyCap \in Nat /\ m <= k
  BY <1>1, FS_CardinalityType, FS_Subset, TicketAssumption
<1>3. Counted' \subseteq SendCall /\ IsFiniteSet(Counted') /\ mp \in Nat /\ mp <= k
  BY FS_CardinalityType, FS_Subset, TicketAssumption DEF Counted
<1>4. CASE today' \subseteq today /\ Counted' \subseteq Counted
  <2>1. np \in Nat /\ np <= n /\ mp <= m
    BY <1>1, <1>4, FS_CardinalityType, FS_Subset
  <2> HIDE DEF n, m, np, mp, k
  <2>2. today' # {} => np + mp < DailyCap + k
    BY <1>2, <1>3, <1>4, <2>1 DEF CapInv, n, m, k
  <2>3. QED BY <1>4, <2>2 DEF CapInv, np, mp, k
<1>5. ASSUME n < DailyCap, today' = today PROVE CapInv'
  <2>1. np = n BY <1>5
  <2> HIDE DEF n, m, np, mp, k
  <2>2. np + mp < DailyCap + k /\ DailyCap > 0 BY <1>2, <1>3, <1>5, <2>1
  <2>3. QED BY <2>2 DEF CapInv, np, mp, k
<1>6. ASSUME NEW c \in Counted, NEW t \in TicketId \ today,
             today' = today \cup {t}, Counted' = Counted \ {c}
      PROVE  CapInv'
  <2>1. np = n + 1 BY <1>1, <1>6, FS_AddElement
  <2>2. mp = m - 1 BY <1>1, <1>6, FS_RemoveElement
  <2>3. DailyCap > 0 BY <1>6 DEF CapInv
  <2>4. today = {} => n = 0 BY FS_EmptySet
  <2> HIDE DEF n, m, np, mp, k
  <2>5. np + mp < DailyCap + k
    <3>1. CASE today = {} BY <1>2, <2>1, <2>2, <2>3, <2>4, <3>1
    <3>2. CASE today # {} BY <1>2, <2>1, <2>2, <3>2 DEF CapInv, n, m, k
    <3>3. QED BY <3>1, <3>2
  <2>6. QED BY <2>3, <2>5 DEF CapInv, np, mp, k
<1>7. QED BY <1>4, <1>5, <1>6, CapKinds

\* The inductive invariant of the send tickets.
THEOREM LimitsInvariant == SendSpec => []LimitInv
<1>1. SendInit => LimitInv
  <2> SUFFICES ASSUME SendInit PROVE LimitInv OBVIOUS
  <2>1. TicketInv
    BY TicketAssumption DEF SendInit, TicketInv, TicketRows, ServedType, CallType,
           WinnerInv, Creating, Redeeming
  <2>2. TicketStores BY DEF SendInit, TicketStores
  <2>3. \A n \in Nonce : Cardinality(Carrying(n)) = 0
    BY FS_EmptySet, TicketAssumption DEF SendInit, Carrying
  <2>4. NonceInv BY <2>3, TicketAssumption DEF SendInit, NonceInv, LetPass
  <2>5. CapInv BY DEF SendInit, CapInv, Counted
  <2>6. QED BY <2>1, <2>2, <2>4, <2>5 DEF LimitInv
<1>2. LimitInv /\ [SendNext]_sendVars => LimitInv'
  BY TicketInvNext, TicketStoresNext, NonceInvNext, CapInvNext DEF LimitInv, TicketInv
<1>3. QED BY <1>1, <1>2, PTL DEF SendSpec

\* Every variable keeps its type, a call that redeems has a ticket, and only
\* existing rows count towards the day's cap.
THEOREM TicketTypes == SendSpec => []SendTypeOK
<1>1. LimitInv => SendTypeOK
  BY DEF LimitInv, TicketInv, TicketRows, ServedType, TicketStores, NonceInv, SendTypeOK
<1>2. QED BY <1>1, LimitsInvariant, PTL

\* create_send_ticket makes one ticket with a nonce, and one more for each time
\* its key lapsed or the check was skipped, and exceeds the daily cap by less
\* than the number of concurrent calls.
THEOREM CreationLimited == SendSpec => []CreationLimits
<1>1. LimitInv => CreationLimits
  <2> SUFFICES ASSUME LimitInv PROVE CreationLimits OBVIOUS
  <2>1. Cardinality(today) \in Nat /\ Cardinality(Counted) \in Nat /\ Cardinality(SendCall) \in Nat
    BY FS_CardinalityType, FS_Subset, TicketAssumption DEF LimitInv, TicketStores, Rows,
                                         Counted
  <2>2. \A n \in Nonce : minted[n] <= 1 + openings[n]
    BY CarryingCount, TicketAssumption DEF LimitInv, NonceInv, LetPass
  <2>3. today # {} => Cardinality(today) < DailyCap + Cardinality(SendCall)
    BY <2>1, TicketAssumption DEF LimitInv, CapInv
  <2>4. QED BY <2>2, <2>3, SameCardinality DEF CreationLimits
<1>2. QED BY <1>1, LimitsInvariant, PTL
=============================================================================
