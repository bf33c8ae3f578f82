---------------------------- MODULE SendTicket ----------------------------
(***************************************************************************)
(* Send tickets of one user's keyboard extension: POST .../send-ticket     *)
(* issues a short-lived ticket for a video, GET .../media redeems it for a *)
(* presigned URL.  Each handler is a sequence of single statements against *)
(* Redis, Postgres and the object store; nothing is held across them.      *)
(***************************************************************************)
EXTENDS Naturals, FiniteSets

CONSTANTS TicketId,  \* ticket ids
          SendCall,  \* concurrent calls of either handler
          Nonce,
          NoTicket, NoNonce,
          DailyCap,  \* KEYBOARD_DAILY_SEND_CAP
          MaxOpenings  \* bound on lapses and skips per nonce

ASSUME TicketAssumption ==
  /\ NoTicket \notin TicketId /\ NoNonce \notin Nonce
  /\ IsFiniteSet(TicketId) /\ IsFiniteSet(SendCall)
  /\ DailyCap \in Nat /\ MaxOpenings \in Nat

VARIABLES
  row,       \* send_tickets.status, "none" before the insert, "deleted" after a hard delete
  past,      \* tickets whose expires_at has passed
  today,     \* rows with created_at >= today_start
  nonces,    \* nonce keys in Redis
  video,     \* "published" when get_published_video_or_404 finds it, else "gone"
  stage,     \* where each call stands
  toRedeem,  \* the ticket it is redeeming
  nonce,     \* the nonce it is creating a ticket with
  served,    \* media URLs given out per ticket
  minted,    \* history: tickets created with a nonce
  openings   \* history: how often a nonce's key lapsed or was not asked for

rowVars == <<row, past, today>>
callVars == <<stage, toRedeem, nonce>>
nonceVars == <<nonces, minted, openings>>
sendVars == <<rowVars, nonceVars, video, callVars, served>>

Rows == {t \in TicketId : row[t] \in {"active", "redeemed", "expired"}}
Creating == {"fresh", "counted", "inserting"}
Redeeming == {"expiring", "checking", "swapping", "won"}

CallType ==
  /\ stage \in [SendCall -> Creating \cup Redeeming \cup {"idle"}]
  /\ toRedeem \in [SendCall -> TicketId \cup {NoTicket}]
  /\ nonce \in [SendCall -> Nonce \cup {NoNonce}]
  /\ \A c \in SendCall : stage[c] \in Redeeming => toRedeem[c] \in TicketId
  /\ \A c \in SendCall : stage[c] \in Creating => nonce[c] \in Nonce

\* Every variable has its type, a call that redeems has a ticket and one that
\* creates has a nonce, and only existing rows count towards the day's cap.
SendTypeOK ==
  /\ row \in [TicketId -> {"none", "active", "redeemed", "expired", "deleted"}]
  /\ past \subseteq TicketId
  /\ today \subseteq Rows
  /\ nonces \subseteq Nonce
  /\ video \in {"published", "gone"}
  /\ CallType
  /\ served \in [TicketId -> Nat]
  /\ minted \in [Nonce -> Nat]
  /\ openings \in [Nonce -> 0..MaxOpenings]

SendInit ==
  /\ row = [t \in TicketId |-> "none"]
  /\ past = {} /\ today = {} /\ nonces = {}
  /\ video = "published"
  /\ stage = [c \in SendCall |-> "idle"]
  /\ toRedeem = [c \in SendCall |-> NoTicket]
  /\ nonce = [c \in SendCall |-> NoNonce]
  /\ served = [t \in TicketId |-> 0]
  /\ minted = [n \in Nonce |-> 0]
  /\ openings = [n \in Nonce |-> 0]

At(c, place) == stage' = [stage EXCEPT ![c] = place]

\* The handler returns, with an answer or an error.
Leave(c) ==
  /\ At(c, "idle")
  /\ toRedeem' = [toRedeem EXCEPT ![c] = NoTicket]
  /\ nonce' = [nonce EXCEPT ![c] = NoNonce]

----------------------------------------------------------------------------
(* create_send_ticket *)

\* The nonce may be used once more.
Opens(n) ==
  /\ openings[n] < MaxOpenings
  /\ openings' = [openings EXCEPT ![n] = @ + 1]

\* The call goes on with its nonce.
Admit(c, n) == At(c, "fresh") /\ nonce' = [nonce EXCEPT ![c] = n]

\* Mutant: SET without NX.
CreateNonceAlways(c, n) ==
  /\ stage[c] = "idle"
  /\ Admit(c, n)
  /\ \/ nonces' = nonces \cup {n} /\ UNCHANGED openings
     \/ Opens(n) /\ UNCHANGED nonces
  /\ UNCHANGED <<rowVars, video, toRedeem, served, minted>>

\* SET nonce NX EX.  A key that is there already, or an error, is a 400, and an
\* error may have set the key.  When no connection can be had the check is
\* skipped and the call goes on with its nonce.
CreateNonce(c, n) ==
  /\ stage[c] = "idle"
  /\ \/ /\ n \notin nonces
        /\ nonces' = nonces \cup {n}
        /\ Admit(c, n) \/ UNCHANGED <<stage, nonce>>
        /\ UNCHANGED openings
     \/ Admit(c, n) /\ Opens(n) /\ UNCHANGED nonces
  /\ UNCHANGED <<rowVars, video, toRedeem, served, minted>>

\* Mutant: the cap is compared with > instead of >=.
CreateCountOneTooMany(c) ==
  /\ stage[c] = "fresh"
  /\ IF Cardinality(today) <= DailyCap
       THEN At(c, "counted") /\ UNCHANGED <<toRedeem, nonce>>
       ELSE Leave(c)
  /\ UNCHANGED <<rowVars, nonceVars, video, served>>

\* Count today's rows; at the cap, 429.
CreateCount(c) ==
  /\ stage[c] = "fresh"
  /\ IF Cardinality(today) < DailyCap
       THEN At(c, "counted") /\ UNCHANGED <<toRedeem, nonce>>
       ELSE Leave(c)
  /\ UNCHANGED <<rowVars, nonceVars, video, served>>

\* get_published_video_or_404.
CreateVideo(c) ==
  /\ stage[c] = "counted"
  /\ IF video = "published"
       THEN At(c, "inserting") /\ UNCHANGED <<toRedeem, nonce>>
       ELSE Leave(c)
  /\ UNCHANGED <<rowVars, nonceVars, video, served>>

\* INSERT and answer.
CreateInsert(c, t) ==
  /\ stage[c] = "inserting"
  /\ row[t] = "none"
  /\ row' = [row EXCEPT ![t] = "active"]
  /\ today' = today \cup {t}
  /\ minted' = [minted EXCEPT ![nonce[c]] = @ + 1]
  /\ Leave(c)
  /\ UNCHANGED <<past, nonces, openings, video, served>>

----------------------------------------------------------------------------
(* redeem_send_ticket_media *)

\* Read the clock and the row.  A row that is not active: 400.
RedeemRead(c, t) ==
  /\ stage[c] = "idle"
  /\ row[t] = "active"
  /\ toRedeem' = [toRedeem EXCEPT ![c] = t]
  /\ At(c, IF t \in past THEN "expiring" ELSE "checking")
  /\ UNCHANGED <<rowVars, nonceVars, video, nonce, served>>

\* UPDATE ... SET expired WHERE status = active; an error is ignored.
RedeemExpire(c) ==
  /\ stage[c] = "expiring"
  /\ \/ row' = [row EXCEPT ![toRedeem[c]] = IF @ = "active" THEN "expired" ELSE @]
     \/ UNCHANGED row
  /\ Leave(c)
  /\ UNCHANGED <<past, today, nonceVars, video, served>>

\* get_published_video_or_404.
RedeemVideo(c) ==
  /\ stage[c] = "checking"
  /\ IF video = "published"
       THEN At(c, "swapping") /\ UNCHANGED <<toRedeem, nonce>>
       ELSE Leave(c)
  /\ UNCHANGED <<rowVars, nonceVars, video, served>>

\* Mutant: the row read before is trusted, its status not tested again.
RedeemSwapUnguarded(c) ==
  /\ stage[c] = "swapping"
  /\ row' = [row EXCEPT ![toRedeem[c]] = "redeemed"]
  /\ At(c, "won")
  /\ UNCHANGED <<past, today, nonceVars, video, toRedeem, nonce, served>>

\* UPDATE ... SET redeemed WHERE status = active AND redeemed_at IS NULL: one
\* caller wins.  (expires_at is compared with the clock read at the start.)
RedeemSwap(c) ==
  /\ stage[c] = "swapping"
  /\ IF row[toRedeem[c]] = "active"
       THEN /\ row' = [row EXCEPT ![toRedeem[c]] = "redeemed"]
            /\ At(c, "won")
            /\ UNCHANGED <<toRedeem, nonce>>
       ELSE Leave(c) /\ UNCHANGED row
  /\ UNCHANGED <<past, today, nonceVars, video, served>>

\* Presign the media URL and redirect to it.
RedeemSign(c) ==
  /\ stage[c] = "won"
  /\ served' = [served EXCEPT ![toRedeem[c]] = @ + 1]
  /\ Leave(c)
  /\ UNCHANGED <<rowVars, nonceVars, video>>

----------------------------------------------------------------------------
\* A database or storage error, or a client that went away: what was done
\* stays done.
CallFails(c) ==
  /\ stage[c] # "idle"
  /\ Leave(c)
  /\ UNCHANGED <<rowVars, nonceVars, video, served>>

\* Mutant: the row goes, the count keeps it (a counter instead of a COUNT).
HardDeleteUncounted(t) ==
  /\ t \in Rows
  /\ row' = [row EXCEPT ![t] = "deleted"]
  /\ UNCHANGED <<past, today, nonceVars, video, callVars, served>>

\* The admin's hard delete of a ticket.
HardDeleteTicket(t) ==
  /\ t \in Rows
  /\ row' = [row EXCEPT ![t] = "deleted"]
  /\ today' = today \ {t}
  /\ UNCHANGED <<past, nonceVars, video, callVars, served>>

\* The video is deleted or hidden, or is visible again.
VideoChanges ==
  /\ video' \in {"published", "gone"} \ {video}
  /\ UNCHANGED <<rowVars, nonceVars, callVars, served>>

\* The clock passes the ticket's expires_at.
TicketExpires(t) ==
  /\ t \in Rows \ past
  /\ past' = past \cup {t}
  /\ UNCHANGED <<row, today, nonceVars, video, callVars, served>>

\* The nonce's key reaches its TTL.
NonceLapses(n) ==
  /\ n \in nonces
  /\ nonces' = nonces \ {n}
  /\ Opens(n)
  /\ UNCHANGED <<rowVars, video, callVars, served, minted>>

\* Midnight UTC: no row is of today.
NewDay ==
  /\ today' = {}
  /\ UNCHANGED <<row, past, nonceVars, video, callVars, served>>

CallStep(c) ==
  \/ \E n \in Nonce : CreateNonce(c, n)
  \/ CreateCount(c) \/ CreateVideo(c) \/ (\E t \in TicketId : CreateInsert(c, t))
  \/ (\E t \in TicketId : RedeemRead(c, t))
  \/ RedeemExpire(c) \/ RedeemVideo(c) \/ RedeemSwap(c) \/ RedeemSign(c)
  \/ CallFails(c)

SendNext ==
  \/ \E c \in SendCall : CallStep(c)
  \/ \E t \in TicketId : HardDeleteTicket(t) \/ TicketExpires(t)
  \/ \E n \in Nonce : NonceLapses(n)
  \/ VideoChanges \/ NewDay

SendSpec == SendInit /\ [][SendNext]_sendVars
----------------------------------------------------------------------------
(* Properties. *)

Promise == INSTANCE OneTimeTicket WITH Ticket <- TicketId, state <- row

\* Redemption is single-use whatever calls race: the rows and the URLs handed
\* out behave as OneTimeTicket says.
SingleUse == Promise!Spec

\* A nonce makes one ticket, and one more for each time its key lapsed or a call
\* skipped the check because Redis could not be reached, however the calls that
\* carry it overlap.  The daily cap is counted before the insert, so concurrent
\* calls overshoot it, but by no more than one ticket per further call.
CreationLimits ==
  /\ \A n \in Nonce : minted[n] <= 1 + openings[n]
  /\ today # {} => Cardinality(today) < DailyCap + Cardinality(SendCall)
=============================================================================
