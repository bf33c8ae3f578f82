--------------------------- MODULE AccountsProofs ---------------------------
(***************************************************************************)
(* The proofs of the account life cycle.                                   *)
(*                                                                         *)
(* The three invariants of Accounts are not inductive.  That a deleted     *)
(* account is signed out needs it kind by kind while the wipe is under way *)
(* (SignedOutInv), and that a request which inserts a session saw the      *)
(* account in use (RequestInv).  That the served profile is right needs    *)
(* that whatever get_me is about to store is right (CopyInv).  That a      *)
(* removal is right needs what is still on the list of each removal under  *)
(* way (BucketInv), and that an account in use which is being swept came   *)
(* back (SweepInv).                                                        *)
(*                                                                         *)
(* All but RequestInv speak of a few requests only, the marked ones, so    *)
(* that most steps of a request are plain and disturb nothing.             *)
(***************************************************************************)
EXTENDS Accounts, TLAPS

\* A request that is to write a name has one, one that is to insert a session
\* found the account in use or is an administrator's, and one on its way to the
\* wipe of a deletion is that deletion.
Sound(r) ==
  /\ r.at \in {"record", "nameRead", "taken", "nameWrite"} => r.want \in Name
  /\ r.at \in {"issue", "insert"} => r.op = "admin" \/ r.saw = "active"
  /\ r.at = "mark" => r.op = "delete"

RequestInv == \A c \in Call : Sound(call[c])

\* A deletion is at work on the sessions of kind k.
WipeLeft(k) ==
  \E c \in Call :
    /\ call[c].op = "delete"
    /\ call[c].at = "wipeRefresh" \/ (call[c].at = "wipeExtension" /\ k = "extension")

\* Kind by kind, a deleted account is signed out once the wipe of that kind is over.
SignedOutInv ==
  account \in {"deleted", "due"} /\ ~halfway =>
    \A k \in Kind : WipeLeft(k) \/ "own" \notin session[k]

\* The dropped profile stays right because whatever get_me is about to store is right.
CopyInv == settled => Undisturbed /\ (profile = NoProfile \/ (profile = Row /\ account = "active"))

\* The media that the rows name.
NamedMedia == media \cap Named(issued)

\* Only what was uploaded has media, and the worker is at videos whose rows name the upload; what
\* the rows name and a removal under way has not deleted is excused or on its list.
BucketInv ==
  /\ placed \subseteq stored /\ \A m \in media : m[2] \in stored
  /\ \A v \in Video : work[v] # "none" => v \in stored \ placed
  /\ account # "gone" =>
       /\ rows = issued
       /\ sweep.at = "erase" => NamedMedia \subseteq excused \cup sweep.left
       /\ \A c \in Call : Erasing(c) =>
            \A m \in NamedMedia : m[1] # "thumb" => m \in excused \cup call[c].left
  /\ account = "gone" => NamedMedia \subseteq excused

\* An account in use that is being swept came back, and nothing that the rows of an account
\* name, or are about to name, is missing before a removal has begun to erase.
SweepInv ==
  /\ ~robbed
  /\ sweep.at # "asleep" /\ account = "active" => torn
  /\ account # "gone" /\ ~torn /\ sweep.at # "erase" /\ ~(\E c \in Call : Erasing(c)) =>
       /\ \A v \in rows \cap stored : Object(v) \in media
       /\ \A v \in Video : work[v] = "stored" => <<"copy", v>> \in media

Inv == TypeOK /\ RequestInv /\ SignedOutInv /\ CopyInv /\ BucketInv /\ SweepInv

-----------------------------------------------------------------------------
(* Requests. *)

\* The requests that the other invariants speak of.
Marked(r) ==
  \/ r.at \in {"store", "erase"}
  \/ r.op = "delete" /\ r.at \in {"wipeRefresh", "wipeExtension"}

\* Request c alone goes on, and is now x.
Turns(c, x) ==
  /\ call' \in [Call -> Request]
  /\ call'[c] = x
  /\ \A d \in Call \ {c} : call'[d] = call[d]

\* A step of request c that the other invariants do not notice.
Plain(c) ==
  /\ Turns(c, call'[c])
  /\ ~Marked(call[c]) /\ ~Marked(call'[c])
  /\ Sound(call'[c])

LEMMA Sets ==
  ASSUME call \in [Call -> Request], NEW c \in Call, NEW x \in Request,
         call' = [call EXCEPT ![c] = x]
  PROVE  Turns(c, x)
BY DEF Turns

LEMMA Blank ==
  /\ Idle = [at |-> "idle", op |-> "none", saw |-> "gone", copy |-> NoProfile, want |-> NoName,
             left |-> {}]
  /\ Idle \in Request
  /\ NoProfile \in Profile /\ NoProfile = [name |-> NoName, onboarded |-> FALSE]
<1>1. NoProfile \in Profile /\ NoProfile = [name |-> NoName, onboarded |-> FALSE]
  BY DEF NoProfile, Profile
<1> QED
  BY <1>1 DEF Idle, Request, Place, Op, AccountState

LEMMA Returns ==
  ASSUME call \in [Call -> Request], NEW c \in Call, Return(c)
  PROVE  Turns(c, Idle) /\ Sound(Idle) /\ ~Marked(Idle)
BY Sets, Blank DEF Return, Sound, Marked

LEMMA Goes ==
  ASSUME call \in [Call -> Request], NEW c \in Call, NEW p \in Place, Goto(c, p)
  PROVE  /\ Turns(c, call'[c])
         /\ call'[c].at = p /\ call'[c].op = call[c].op /\ call'[c].saw = call[c].saw
         /\ call'[c].copy = call[c].copy /\ call'[c].want = call[c].want
         /\ call'[c].left = call[c].left
BY DEF Goto, Turns, Request

\* What a step that is about a request alone leaves alone.
still == <<topic, userVars, session, cacheVars, mediaVars, purgeVars, halfway, settled>>

\* A request begins.
LEMMA Opens ==
  ASSUME TypeOK, NEW c \in Call,
         \/ LoginRead(c) \/ AdminSession(c) \/ DevLogin(c) \/ ExtensionCheck(c) \/ AdminExtension(c)
         \/ RefreshRead(c) \/ LogoutAll(c) \/ DeleteBegin(c) \/ GetMe(c) \/ OnboardRead(c)
         \/ \E n \in Name : NameBegin(c, n) \/ AdminName(c, n)
         \/ UploadCheck(c) \/ HardDeleteRead(c)
  PROVE  Plain(c) /\ UNCHANGED still /\ faults' \in 0 .. MaxFaults
<1> USE DEF TypeOK, ProcessType, UserType
<1>1. ASSUME NEW p \in Place \ {"store", "erase", "wipeExtension", "record", "nameRead", "taken",
                                "nameWrite"},
             NEW o \in Op, Begin(c, p, o),
             p = "wipeRefresh" => o = "logout", p \in {"issue", "insert"} => o = "admin",
             p = "mark" => o = "delete"
      PROVE  Plain(c)
  <2> DEFINE x == [Idle EXCEPT !.at = p, !.op = o]
  <2>1. x \in Request /\ x.at = p /\ x.op = o
    BY Blank DEF Request, AccountState
  <2>2. call' = [call EXCEPT ![c] = x] /\ call[c].at = "idle"
    BY <1>1 DEF Begin, At
  <2> HIDE DEF x
  <2> QED
    BY <1>1, <2>1, <2>2, Sets DEF Plain, Turns, Marked, Sound
<1>2. ASSUME NEW p \in {"update", "insert"}, NEW o \in Op, BeginSeeing(c, p, o),
             p = "insert" => account = "active"
      PROVE  Plain(c)
  <2>1. p \in Place
    BY DEF Place
  <2> DEFINE x == [Idle EXCEPT !.at = p, !.op = o, !.saw = account]
  <2>2. x \in Request /\ x.at = p /\ x.saw = account
    BY <2>1, Blank DEF Request, AccountState
  <2>3. call' = [call EXCEPT ![c] = x] /\ call[c].at = "idle"
    BY <1>2 DEF BeginSeeing, At
  <2> HIDE DEF x
  <2> QED
    BY <1>2, <2>2, <2>3, Sets DEF Plain, Turns, Marked, Sound
<1>3. ASSUME NEW o \in Op, Onboards(c, o) PROVE Plain(c)
  <2>1. "write" \in Place
    BY DEF Place
  <2> DEFINE x == [Idle EXCEPT !.at = "write", !.op = o, !.copy.onboarded = onboarded]
  <2>2. x \in Request /\ x.at = "write"
    BY <2>1, Blank DEF Request, AccountState, Profile
  <2>3. call' = [call EXCEPT ![c] = x] /\ call[c].at = "idle"
    BY <1>3 DEF Onboards, At
  <2> HIDE DEF x
  <2> QED
    BY <2>2, <2>3, Sets DEF Plain, Turns, Marked, Sound
<1>4. ASSUME NEW n \in Name, NEW p \in {"record", "nameRead", "taken"}, NEW o \in Op,
             call[c].at = "idle",
             call' = [call EXCEPT ![c] = [Idle EXCEPT !.at = p, !.op = o, !.want = n]]
      PROVE  Plain(c)
  <2>1. p \in Place
    BY DEF Place
  <2> DEFINE x == [Idle EXCEPT !.at = p, !.op = o, !.want = n]
  <2>2. x \in Request /\ x.at = p /\ x.want = n
    BY <2>1, Blank DEF Request, AccountState
  <2>3. call' = [call EXCEPT ![c] = x]
    BY <1>4
  <2> HIDE DEF x
  <2> QED
    BY <1>4, <2>2, <2>3, Sets DEF Plain, Turns, Marked, Sound
<1>5. ASSUME NEW n \in Name, NameBegin(c, n) PROVE Plain(c)
  <2>1. call[c].at = "idle"
    BY <1>5 DEF NameBegin, At
  <2>2. PICK o \in {"name", "keyed"} :
          call' = [call EXCEPT ![c] = [Idle EXCEPT
                     !.at = IF o = "keyed" THEN "record" ELSE "nameRead", !.op = o, !.want = n]]
    BY <1>5 DEF NameBegin
  <2>3. o \in Op
    BY DEF Op
  <2>4. CASE o = "keyed"
    BY <1>4, <2>1, <2>2, <2>3, <2>4
  <2>5. CASE o = "name"
    BY <1>4, <2>1, <2>2, <2>3, <2>5
  <2> QED
    BY <2>4, <2>5
<1>6. UNCHANGED still
  BY DEF still, LoginRead, AdminSession, DevLogin, ExtensionCheck, AdminExtension, RefreshRead,
         LogoutAll, DeleteBegin, GetMe, OnboardRead, NameBegin, AdminName, UploadCheck, HardDeleteRead
<1>7. faults' \in 0 .. MaxFaults
  <2>1. CASE GetMe(c)
    BY <2>1, AccountAssumption DEF GetMe
  <2>2. CASE ~GetMe(c)
    BY <2>2
    DEF LoginRead, AdminSession, DevLogin, ExtensionCheck, AdminExtension, RefreshRead,
        LogoutAll, DeleteBegin, OnboardRead, NameBegin, AdminName, UploadCheck, HardDeleteRead
  <2> QED
    BY <2>1, <2>2
<1>8. CASE \/ AdminSession(c) \/ AdminExtension(c) \/ RefreshRead(c) \/ LogoutAll(c) \/ DeleteBegin(c)
           \/ GetMe(c) \/ UploadCheck(c) \/ HardDeleteRead(c)
  <2>1. Plain(c)
    BY <1>1, <1>8
    DEF AdminSession, AdminExtension, RefreshRead, LogoutAll, DeleteBegin, GetMe, UploadCheck,
        HardDeleteRead, Place, Op
  <2> QED
    BY <1>6, <1>7, <2>1
<1>9. CASE LoginRead(c) \/ ExtensionCheck(c)
  <2>1. Plain(c)
    BY <1>2, <1>9 DEF LoginRead, ExtensionCheck, Authorized, Op
  <2> QED
    BY <1>6, <1>7, <2>1
<1>10. CASE DevLogin(c) \/ OnboardRead(c)
  <2>1. Plain(c)
    BY <1>3, <1>10 DEF DevLogin, OnboardRead, Op
  <2> QED
    BY <1>6, <1>7, <2>1
<1>11. CASE \E n \in Name : NameBegin(c, n) \/ AdminName(c, n)
  <2>1. Plain(c)
    BY <1>4, <1>5, <1>11 DEF AdminName, At, Op
  <2> QED
    BY <1>6, <1>7, <2>1
<1> QED
  BY <1>8, <1>9, <1>10, <1>11

\* A request goes on.
LEMMA Moves ==
  ASSUME TypeOK, RequestInv, NEW c \in Call,
         \/ LoginUpdate(c) \/ Issue(c) \/ ExtensionInsert(c) \/ RefreshRotate(c) \/ DropProfile(c)
         \/ OnboardWrite(c) \/ NameRecord(c) \/ NameRead(c) \/ NameTaken(c) \/ NameWrite(c)
         \/ StoreRecord(c) \/ UploadInsert(c)
  PROVE  Plain(c)
<1>1. call \in [Call -> Request] /\ Sound(call[c]) /\ account \in AccountState
  BY DEF TypeOK, UserType, ProcessType, RequestInv
<1>2. ASSUME call[c].at \notin {"store", "erase", "wipeRefresh", "wipeExtension"}, Return(c)
      PROVE  Plain(c)
  BY <1>1, <1>2, Returns DEF Plain, Turns, Marked
<1>3. ASSUME call[c].at \notin {"store", "erase", "wipeRefresh", "wipeExtension"},
             NEW p \in {"issue", "drop", "nameRead", "taken", "nameWrite", "storeRecord"}, Goto(c, p),
             p = "issue" => call[c].op = "admin",
             p \in {"nameRead", "taken", "nameWrite"} => call[c].want \in Name
      PROVE  Plain(c)
  <2>1. p \in Place
    BY DEF Place
  <2> QED
    BY <1>1, <1>3, <2>1, Goes DEF Plain, Turns, Marked, Sound
<1>4. CASE LoginUpdate(c)
  <2>1. call[c].at = "update"
    BY <1>4 DEF LoginUpdate, At
  <2>2. CASE Return(c)
    BY <1>2, <2>1, <2>2
  <2>3. CASE call' = [call EXCEPT ![c].at = "issue",
                                  ![c].saw = IF call[c].saw # "active" THEN "active" ELSE @]
    <3> DEFINE x == [call[c] EXCEPT !.at = "issue", !.saw = "active"]
    <3>1. x \in Request /\ x.at = "issue" /\ x.saw = "active"
      BY <1>1 DEF Request, Place, AccountState
    <3>a. call'[c] = x /\ call' = [call EXCEPT ![c] = call'[c]]
      BY <1>1, <2>3 DEF Request
    <3> HIDE DEF x
    <3>2. Turns(c, call'[c]) /\ call'[c].at = "issue" /\ call'[c].saw = "active"
      BY <1>1, <3>1, <3>a, Sets DEF Turns
    <3> QED
      BY <2>1, <3>2 DEF Plain, Marked, Sound
  <2> QED
    BY <1>4, <2>2, <2>3 DEF LoginUpdate
<1>5. CASE Issue(c) \/ ExtensionInsert(c) \/ RefreshRotate(c)
  BY <1>2, <1>5 DEF Issue, ExtensionInsert, RefreshRotate, Insert, At
<1>6. CASE DropProfile(c) \/ StoreRecord(c) \/ UploadInsert(c)
  BY <1>2, <1>3, <1>6 DEF DropProfile, StoreRecord, UploadInsert, At
<1>7. CASE OnboardWrite(c)
  BY <1>2, <1>3, <1>7 DEF OnboardWrite, AfterOnboarding, At
<1>8. CASE NameRecord(c) \/ NameTaken(c) \/ NameWrite(c)
  BY <1>1, <1>2, <1>3, <1>8 DEF NameRecord, NameTaken, NameWrite, At, Sound
<1>9. CASE NameRead(c)
  <2>1. call[c].at = "nameRead" /\ call[c].want \in Name
    BY <1>1, <1>9 DEF NameRead, At, Sound
  <2>2. Return(c) \/ Goto(c, "storeRecord") \/ Goto(c, "taken")
    BY <1>9 DEF NameRead
  <2> QED
    BY <1>2, <1>3, <2>1, <2>2
<1> QED
  BY <1>4, <1>5, <1>6, <1>7, <1>8, <1>9

\* What the other invariants see of the requests: the wipes of deletions, the copies that
\* get_me is about to store, and the removals.
SameWipes == \A k \in Kind : WipeLeft(k) => WipeLeft(k)'

SameCopies ==
  \A d \in Call : call'[d].at = "store" => call[d].at = "store" /\ call'[d].copy = call[d].copy

SameErasures ==
  \A d \in Call : /\ call'[d].at = "erase" <=> call[d].at = "erase"
                  /\ call'[d].at = "erase" => call'[d].left = call[d].left

LEMMA PlainIsUnseen ==
  ASSUME NEW c \in Call, Plain(c)
  PROVE  SameWipes /\ SameCopies /\ SameErasures
<1>1. \A d \in Call : call'[d] = call[d] \/ (~Marked(call[d]) /\ ~Marked(call'[d]))
  BY DEF Plain, Turns
<1>2. SameWipes
  BY <1>1 DEF SameWipes, WipeLeft, Marked
<1> QED
  BY <1>1, <1>2 DEF SameCopies, SameErasures, Marked

\* One that only turns c, and not from a wipe of a deletion, to a copy or from or to a removal.
LEMMA TurnIsUnseen ==
  ASSUME NEW c \in Call, Turns(c, call'[c])
  PROVE  /\ ~(call[c].op = "delete" /\ call[c].at \in {"wipeRefresh", "wipeExtension"}) => SameWipes
         /\ call'[c].at # "store" => SameCopies
         /\ call[c].at # "erase" /\ call'[c].at # "erase" => SameErasures
<1>1. ~(call[c].op = "delete" /\ call[c].at \in {"wipeRefresh", "wipeExtension"}) => SameWipes
  BY DEF Turns, SameWipes, WipeLeft
<1> QED
  BY <1>1 DEF Turns, SameCopies, SameErasures

LEMMA RequestTurn ==
  ASSUME RequestInv, NEW c \in Call, Turns(c, call'[c]), Sound(call'[c])
  PROVE  RequestInv'
<1>1. ASSUME NEW d \in Call PROVE Sound(call'[d])
  <2>1. d # c => call'[d] = call[d]
    BY DEF Turns
  <2> QED
    BY <2>1 DEF RequestInv
<1> QED
  BY <1>1 DEF RequestInv, Sound

-----------------------------------------------------------------------------
(* What a step does not touch stays as it is. *)

LEMMA SignedKept ==
  ASSUME SignedOutInv, SameWipes, UNCHANGED <<account, halfway>>,
         \A k \in Kind : "own" \in session'[k] => "own" \in session[k]
  PROVE  SignedOutInv'
BY DEF SignedOutInv, SameWipes

LEMMA CopyKept ==
  ASSUME CopyInv, SameCopies, UNCHANGED <<account, name, onboarded, profile, settled>>
  PROVE  CopyInv'
BY DEF CopyInv, SameCopies, Undisturbed, At, Row

\* The rows name the same media as before.
LEMMA NamedKept ==
  ASSUME UNCHANGED <<placed, issued>>
  PROVE  /\ Named(issued)' = Named(issued)
         /\ media' = media => NamedMedia' = NamedMedia
         /\ media' \subseteq media => NamedMedia' \subseteq NamedMedia \cap media'
         /\ \A v : Object(v)' = Object(v)
BY DEF NamedMedia, Named, Object

LEMMA BucketKept ==
  ASSUME BucketInv, SameErasures, UNCHANGED <<rows, placed, work, media, issued, stored, excused, sweep>>,
         account = "gone" <=> account' = "gone"
  PROVE  BucketInv'
BY DEF BucketInv, NamedMedia, Named, Object, SameErasures, Erasing

LEMMA SweepKept ==
  ASSUME SweepInv, SameErasures, UNCHANGED <<rows, placed, work, media, stored, sweep, torn, robbed>>,
         account' = "active" => account = "active", account' # "gone" => account # "gone"
  PROVE  SweepInv'
BY DEF SweepInv, Object, SameErasures, Erasing

LEMMA UserKept ==
  ASSUME UserType, UNCHANGED <<topic, userVars>>
  PROVE  UserType'
BY DEF UserType, userVars

LEMMA StoreKept ==
  ASSUME StoreType, UNCHANGED <<cacheVars, mediaVars>>, account' = "gone" => account = "gone",
         session' \in [Kind -> SUBSET Origin], account = "gone" => session' = session
  PROVE  StoreType'
BY DEF StoreType, cacheVars, mediaVars, fileVars

LEMMA Failing ==
  ASSUME ProcessType, Fault
  PROVE  faults' \in 0 .. MaxFaults
BY AccountAssumption DEF ProcessType, Fault

LEMMA CallsKept ==
  ASSUME UNCHANGED call
  PROVE  SameWipes /\ SameCopies /\ SameErasures /\ (RequestInv => RequestInv')
BY DEF SameWipes, SameCopies, SameErasures, WipeLeft, RequestInv, Sound

\* A step of a request that nothing else notices.
LEMMA PlainNext ==
  ASSUME Inv, NEW c \in Call, Plain(c), UNCHANGED still, faults' \in 0 .. MaxFaults
  PROVE  Inv'
<1> USE DEF Inv
<1>1. SameWipes /\ SameCopies /\ SameErasures /\ RequestInv' /\ call' \in [Call -> Request]
  BY PlainIsUnseen, RequestTurn DEF Plain, Turns
<1>2. /\ UNCHANGED <<topic, account, name, onboarded, taken, session, profile, record, rows, media>>
      /\ UNCHANGED <<placed, work, issued, stored, excused, sweep, torn, robbed, halfway, settled>>
  BY DEF still, userVars, cacheVars, mediaVars, fileVars, purgeVars
<1>3. TypeOK'
  BY <1>1, <1>2 DEF TypeOK, UserType, StoreType, ProcessType
<1>4. SignedOutInv' /\ CopyInv' /\ BucketInv' /\ SweepInv'
  BY <1>1, <1>2, SignedKept, CopyKept, BucketKept, SweepKept
<1> QED
  BY <1>1, <1>3, <1>4

-----------------------------------------------------------------------------
(* Login and sessions. *)

LEMMA LoginUpdateNext ==
  ASSUME Inv, NEW c \in Call, LoginUpdate(c)
  PROVE  Inv'
<1> USE DEF Inv
<1>1. Plain(c) /\ SameWipes /\ SameCopies /\ SameErasures /\ RequestInv'
  BY Moves, PlainIsUnseen, RequestTurn DEF Plain
<1>2. /\ UNCHANGED <<topic, name, onboarded, taken, session, profile, record, rows, media>>
      /\ UNCHANGED <<placed, work, issued, stored, excused, sweep, robbed, faults>>
  BY DEF LoginUpdate, cacheVars, mediaVars, fileVars
<1>3. \/ UNCHANGED <<account, halfway, torn, settled>>
      \/ /\ account # "gone" /\ account' = "active"
         /\ torn' = (torn \/ sweep.at # "asleep") /\ halfway' = FALSE /\ settled' = FALSE
  BY DEF LoginUpdate, TypeOK, ProcessType
<1>4. TypeOK'
  <2>1. call' \in [Call -> Request]
    BY <1>1 DEF Plain, Turns
  <2> QED
    BY <1>2, <1>3, <2>1 DEF TypeOK, UserType, StoreType, ProcessType, AccountState
<1>5. SignedOutInv'
  <2>1. CASE account' = "active"
    BY <2>1 DEF SignedOutInv
  <2>2. CASE UNCHANGED <<account, halfway>>
    BY <1>1, <1>2, <2>2, SignedKept
  <2> QED
    BY <1>3, <2>1, <2>2
<1>6. CopyInv'
  <2>1. CASE ~settled'
    BY <2>1 DEF CopyInv
  <2>2. CASE UNCHANGED <<account, settled>>
    BY <1>1, <1>2, <2>2, CopyKept
  <2> QED
    BY <1>3, <2>1, <2>2
<1>7. BucketInv'
  BY <1>1, <1>2, <1>3, BucketKept
<1>8. SweepInv'
  <2>1. CASE UNCHANGED <<account, torn>>
    BY <1>1, <1>2, <2>1, SweepKept
  <2>2. CASE account # "gone" /\ account' = "active" /\ torn' = (torn \/ sweep.at # "asleep")
    BY <1>1, <1>2, <2>2, NamedKept DEF SweepInv, SameErasures, Erasing
  <2> QED
    BY <1>3, <2>1, <2>2
<1> QED
  BY <1>1, <1>4, <1>5, <1>6, <1>7, <1>8

\* A step of a request that puts a session at most, of its own only for an account in use.
LEMMA SessionNext ==
  ASSUME Inv, NEW c \in Call, Issue(c) \/ ExtensionInsert(c) \/ RefreshRotate(c)
  PROVE  Inv'
<1> USE DEF Inv
<1>1. Plain(c) /\ SameWipes /\ SameCopies /\ SameErasures /\ RequestInv'
  BY Moves, PlainIsUnseen, RequestTurn DEF Plain
<1>2. /\ UNCHANGED <<topic, account, name, onboarded, taken, profile, record, rows, media>>
      /\ UNCHANGED <<placed, work, issued, stored, excused, sweep, torn, robbed, faults, halfway, settled>>
  BY DEF Issue, ExtensionInsert, RefreshRotate, userVars, cacheVars, mediaVars, fileVars, purgeVars
<1>3. PICK k \in Kind, o \in Origin :
        /\ session' = session \/ (account # "gone" /\ session' = [session EXCEPT ![k] = @ \cup {o}])
        /\ account # "active" => o # "own"
  <2>1. CASE RefreshRotate(c)
    BY <2>1 DEF RefreshRotate, Kind, Origin
  <2>2. CASE Issue(c) \/ ExtensionInsert(c)
    <3>1. call[c].op = "admin" \/ call[c].saw = "active"
      BY <2>2 DEF Issue, ExtensionInsert, At, RequestInv, Sound
    <3>2. OriginOf(c) \in Origin /\ (account # "active" => OriginOf(c) # "own")
      BY <3>1 DEF OriginOf, Origin
    <3>3. PICK k \in Kind : Insert(c, k)
      BY <2>2 DEF Issue, ExtensionInsert, Kind
    <3> QED
      BY <3>2, <3>3 DEF Insert
  <2> QED
    BY <2>1, <2>2
<1>4. /\ session' \in [Kind -> SUBSET Origin]
      /\ account = "gone" => session' = session
      /\ account # "active" => \A j \in Kind : "own" \in session'[j] => "own" \in session[j]
  BY <1>3 DEF TypeOK, StoreType
<1>5. TypeOK'
  <2>1. StoreType'
    BY <1>2, <1>4, StoreKept DEF TypeOK, cacheVars, mediaVars, fileVars
  <2>2. call' \in [Call -> Request]
    BY <1>1 DEF Plain, Turns
  <2> QED
    BY <1>2, <2>1, <2>2 DEF TypeOK, UserType, ProcessType
<1>6. SignedOutInv'
  <2>1. CASE account = "active"
    BY <1>2, <2>1 DEF SignedOutInv
  <2> QED
    BY <1>1, <1>2, <1>4, <2>1, SignedKept
<1>7. CopyInv' /\ BucketInv' /\ SweepInv'
  BY <1>1, <1>2, CopyKept, BucketKept, SweepKept
<1> QED
  BY <1>1, <1>5, <1>6, <1>7

LEMMA WipeRefreshNext ==
  ASSUME Inv, NEW c \in Call, WipeRefresh(c)
  PROVE  Inv'
<1> USE DEF Inv
<1>1. /\ UNCHANGED <<topic, account, name, onboarded, taken, profile, record, rows, media>>
      /\ UNCHANGED <<placed, work, issued, stored, excused, sweep, torn, robbed, faults, halfway, settled>>
      /\ session' = [session EXCEPT !["refresh"] = {}]
      /\ call[c].at = "wipeRefresh"
  BY DEF WipeRefresh, userVars, cacheVars, mediaVars, fileVars, purgeVars, At
<1>2. /\ call' \in [Call -> Request]
      /\ call'[c].at = "wipeExtension" /\ call'[c].op = call[c].op
      /\ \A d \in Call \ {c} :
           \/ call'[d] = call[d]
           \/ /\ call[d].at = "rotate" /\ call'[d].at = "rotate" /\ call'[d].op = "overtaken"
  <2>1. "wipeExtension" \in Place /\ "overtaken" \in Op /\ call \in [Call -> Request]
    BY DEF Place, Op, TypeOK, ProcessType
  <2>2. [call[c] EXCEPT !.at = "wipeExtension"] \in Request
    BY <2>1 DEF Request
  <2>3. \A d \in Call : [call[d] EXCEPT !.op = "overtaken"] \in Request
    BY <2>1 DEF Request
  <2>4. call' \in [Call -> Request]
    BY <2>1, <2>2, <2>3 DEF WipeRefresh
  <2>5. call'[c].at = "wipeExtension" /\ call'[c].op = call[c].op
    BY <2>1 DEF WipeRefresh, Request
  <2>6. ASSUME NEW d \in Call \ {c}
        PROVE  \/ call'[d] = call[d]
               \/ call[d].at = "rotate" /\ call'[d].at = "rotate" /\ call'[d].op = "overtaken"
    BY <2>1 DEF WipeRefresh, Request, At
  <2> QED
    BY <2>4, <2>5, <2>6
<1>3. SameCopies /\ SameErasures
  BY <1>1, <1>2 DEF SameCopies, SameErasures
<1>4. RequestInv'
  BY <1>2 DEF RequestInv, Sound
<1>5. TypeOK'
  <2>1. session' \in [Kind -> SUBSET Origin] /\ (account = "gone" => \A k \in Kind : session'[k] = {})
    BY <1>1 DEF TypeOK, StoreType, Kind
  <2> QED
    BY <1>1, <1>2, <2>1 DEF TypeOK, UserType, StoreType, ProcessType
<1>6. SignedOutInv'
  <2>1. session'["refresh"] = {} /\ session'["extension"] = session["extension"]
    BY <1>1 DEF TypeOK, StoreType, Kind
  <2>2. WipeLeft("extension") => WipeLeft("extension")'
    BY <1>1, <1>2 DEF WipeLeft
  <2> QED
    BY <1>1, <2>1, <2>2 DEF SignedOutInv, Kind
<1>7. CopyInv' /\ BucketInv' /\ SweepInv'
  BY <1>1, <1>3, CopyKept, BucketKept, SweepKept
<1> QED
  BY <1>4, <1>5, <1>6, <1>7

LEMMA WipeExtensionNext ==
  ASSUME Inv, NEW c \in Call, WipeExtension(c)
  PROVE  Inv'
<1> USE DEF Inv
<1>1. /\ UNCHANGED <<topic, account, name, onboarded, taken, profile, record, rows, media>>
      /\ UNCHANGED <<placed, work, issued, stored, excused, sweep, torn, robbed, faults, halfway, settled>>
      /\ session' = [session EXCEPT !["extension"] = {}]
      /\ call[c].at = "wipeExtension"
  BY DEF WipeExtension, userVars, cacheVars, mediaVars, fileVars, purgeVars, At
<1>2. Turns(c, call'[c]) /\ call'[c].at \in {"idle", "drop"}
  <2>1. "drop" \in Place /\ call \in [Call -> Request]
    BY DEF Place, TypeOK, ProcessType
  <2>2. CASE Return(c)
    BY <2>1, <2>2, Returns, Blank DEF Turns
  <2>3. CASE Goto(c, "drop")
    BY <2>1, <2>3, Goes
  <2> QED
    BY <2>2, <2>3 DEF WipeExtension
<1>3. SameCopies /\ SameErasures
  BY <1>1, <1>2, TurnIsUnseen
<1>4. RequestInv'
  BY <1>2, RequestTurn DEF Sound
<1>5. TypeOK'
  <2>1. session' \in [Kind -> SUBSET Origin] /\ (account = "gone" => \A k \in Kind : session'[k] = {})
    BY <1>1 DEF TypeOK, StoreType, Kind
  <2> QED
    BY <1>1, <1>2, <2>1 DEF TypeOK, UserType, StoreType, ProcessType, Turns
<1>6. SignedOutInv'
  <2>1. session'["extension"] = {} /\ session'["refresh"] = session["refresh"]
    BY <1>1 DEF TypeOK, StoreType, Kind
  <2>2. WipeLeft("refresh") => WipeLeft("refresh")'
    BY <1>1, <1>2 DEF WipeLeft, Turns
  <2> QED
    BY <1>1, <2>1, <2>2 DEF SignedOutInv, Kind
<1>7. CopyInv' /\ BucketInv' /\ SweepInv'
  BY <1>1, <1>3, CopyKept, BucketKept, SweepKept
<1> QED
  BY <1>4, <1>5, <1>6, <1>7

-----------------------------------------------------------------------------
(* Deletion, and a request that is cut. *)

LEMMA DeleteMarkNext ==
  ASSUME Inv, NEW c \in Call, DeleteMark(c)
  PROVE  Inv'
<1> USE DEF Inv
<1>1. call \in [Call -> Request] /\ call[c].at = "mark" /\ call[c].op = "delete"
  BY DEF TypeOK, ProcessType, DeleteMark, At, RequestInv, Sound
<1>2. /\ UNCHANGED <<topic, name, onboarded, taken, session, profile, record, rows, media>>
      /\ UNCHANGED <<placed, work, issued, stored, excused, sweep, torn, robbed, faults, halfway>>
  BY DEF DeleteMark, cacheVars, mediaVars, fileVars, purgeVars
<1>3. CASE Return(c) /\ UNCHANGED <<account, settled>>
  <2>1. Plain(c)
    BY <1>1, <1>3, Returns DEF Plain, Turns, Marked
  <2>2. UNCHANGED still /\ faults' \in 0 .. MaxFaults
    BY <1>2, <1>3 DEF still, userVars, cacheVars, mediaVars, fileVars, purgeVars, TypeOK, ProcessType
  <2> QED
    BY <2>1, <2>2, PlainNext
<1>4. CASE account # "gone" /\ account' = "deleted" /\ settled' = FALSE /\ Goto(c, "wipeRefresh")
  <2>1. Turns(c, call'[c]) /\ call'[c].at = "wipeRefresh" /\ call'[c].op = "delete"
    BY <1>1, <1>4, Goes DEF Place
  <2>2. SameErasures
    BY <1>1, <2>1, TurnIsUnseen
  <2>3. RequestInv'
    BY <2>1, RequestTurn DEF Sound
  <2>4. TypeOK'
    BY <1>2, <1>4, <2>1 DEF TypeOK, UserType, StoreType, ProcessType, Turns, AccountState
  <2>5. \A k \in Kind : WipeLeft(k)'
    BY <2>1 DEF WipeLeft
  <2>6. SignedOutInv' /\ CopyInv'
    BY <1>4, <2>5 DEF SignedOutInv, CopyInv
  <2>7. BucketInv' /\ SweepInv'
    BY <1>2, <1>4, <2>2, BucketKept, SweepKept
  <2> QED
    BY <2>3, <2>4, <2>6, <2>7
<1> QED
  BY <1>3, <1>4 DEF DeleteMark

LEMMA CallCutNext ==
  ASSUME Inv, NEW c \in Call, CallCut(c)
  PROVE  Inv'
<1> USE DEF Inv
<1>1. call \in [Call -> Request] /\ faults' \in 0 .. MaxFaults
  BY Failing DEF TypeOK, ProcessType, CallCut
<1>2. /\ UNCHANGED <<topic, account, name, onboarded, taken, session, profile, record, rows, media>>
      /\ UNCHANGED <<placed, work, issued, stored, excused, sweep, robbed, settled>>
  BY DEF CallCut, userVars, cacheVars, mediaVars, fileVars
<1>3. Turns(c, call'[c]) /\ call'[c].at = "idle"
  BY <1>1, Returns, Blank DEF CallCut, Turns
<1>4. RequestInv'
  BY <1>3, RequestTurn DEF Sound
<1>5. TypeOK'
  BY <1>1, <1>2, <1>3 DEF TypeOK, UserType, StoreType, ProcessType, Turns, CallCut
<1>6. SignedOutInv'
  <2>1. CASE halfway' \/ account \notin {"deleted", "due"}
    BY <1>2, <2>1 DEF SignedOutInv
  <2>2. CASE ~halfway' /\ account \in {"deleted", "due"}
    <3>1. UNCHANGED halfway /\ SameWipes
      BY <1>3, <2>2, TurnIsUnseen DEF CallCut, TypeOK, ProcessType
    <3> QED
      BY <1>2, <3>1, SignedKept
  <2> QED
    BY <2>1, <2>2
<1>7. CopyInv'
  BY <1>2, <1>3, TurnIsUnseen, CopyKept
<1>8. BucketInv'
  <2>1. \A d \in Call : Erasing(d)' => call'[d] = call[d]
    BY <1>3 DEF Erasing, Turns
  <2> QED
    BY <1>2, <2>1, NamedKept DEF BucketInv, Erasing
<1>9. SweepInv'
  <2>1. CASE Erasing(c) /\ account # "gone"
    <3>1. torn'
      BY <2>1 DEF CallCut
    <3> QED
      BY <1>2, <3>1 DEF SweepInv
  <2>2. CASE account = "gone"
    BY <1>2, <2>2 DEF SweepInv
  <2>3. CASE ~Erasing(c) /\ account # "gone"
    <3>1. SameErasures /\ UNCHANGED torn
      BY <1>3, <2>3, TurnIsUnseen DEF CallCut, Erasing, TypeOK, ProcessType
    <3> QED
      BY <1>2, <3>1, SweepKept
  <2> QED
    BY <2>1, <2>2, <2>3
<1> QED
  BY <1>4, <1>5, <1>6, <1>7, <1>8, <1>9

LEMMA DeletionAgesNext ==
  ASSUME Inv, DeletionAges
  PROVE  Inv'
<1> USE DEF Inv
<1>1. /\ UNCHANGED <<topic, name, onboarded, taken, session, profile, record, rows, media, call>>
      /\ UNCHANGED <<placed, work, issued, stored, excused, sweep, torn, robbed, faults, halfway, settled>>
      /\ account = "deleted" /\ account' = "due"
  BY DEF DeletionAges, cacheVars, mediaVars, fileVars, purgeVars
<1>2. RequestInv' /\ SameErasures /\ SameWipes
  BY <1>1, CallsKept
<1>3. TypeOK'
  BY <1>1 DEF TypeOK, UserType, StoreType, ProcessType, AccountState
<1>4. SignedOutInv'
  BY <1>1, <1>2 DEF SignedOutInv, SameWipes
<1>5. CopyInv'
  BY <1>1 DEF CopyInv, Undisturbed, At
<1>6. BucketInv' /\ SweepInv'
  BY <1>1, <1>2, BucketKept, SweepKept
<1> QED
  BY <1>2, <1>3, <1>4, <1>5, <1>6

-----------------------------------------------------------------------------
(* The cached profile, onboarding and the name. *)

LEMMA DropProfileNext ==
  ASSUME Inv, NEW c \in Call, DropProfile(c)
  PROVE  Inv'
<1> USE DEF Inv
<1>1. Plain(c) /\ SameWipes /\ SameCopies /\ SameErasures /\ RequestInv'
  BY Moves, PlainIsUnseen, RequestTurn DEF Plain
<1>2. /\ UNCHANGED <<topic, account, name, onboarded, taken, session, record, rows, media>>
      /\ UNCHANGED <<placed, work, issued, stored, excused, sweep, torn, robbed, halfway>>
  BY DEF DropProfile, userVars, mediaVars, fileVars, purgeVars
<1>3. \/ profile' = NoProfile /\ settled' = (settled \/ Undisturbed) /\ UNCHANGED faults
      \/ faults' \in 0 .. MaxFaults /\ UNCHANGED <<profile, settled>>
  BY Failing DEF DropProfile, TypeOK
<1>4. TypeOK'
  <2>1. call' \in [Call -> Request]
    BY <1>1 DEF Plain, Turns
  <2>2. Undisturbed \in BOOLEAN
    BY DEF Undisturbed
  <2>3. profile' \in Profile /\ faults' \in 0 .. MaxFaults
    BY <1>3, Blank DEF TypeOK, StoreType, ProcessType
  <2> QED
    BY <1>2, <1>3, <2>1, <2>2, <2>3 DEF TypeOK, UserType, StoreType, ProcessType
<1>5. CopyInv'
  <2>1. Undisturbed => Undisturbed'
    BY <1>1, <1>2 DEF SameCopies, Undisturbed, At, Row
  <2>2. CASE UNCHANGED <<profile, settled>>
    BY <1>1, <1>2, <2>2, CopyKept
  <2>3. CASE profile' = NoProfile /\ settled' = (settled \/ Undisturbed)
    BY <2>1, <2>3 DEF CopyInv, NoProfile
  <2> QED
    BY <1>3, <2>2, <2>3
<1>6. SignedOutInv' /\ BucketInv' /\ SweepInv'
  BY <1>1, <1>2, SignedKept, BucketKept, SweepKept
<1> QED
  BY <1>1, <1>4, <1>5, <1>6

LEMMA MeQueryNext ==
  ASSUME Inv, NEW c \in Call, MeQuery(c)
  PROVE  Inv'
<1> USE DEF Inv
<1>1. call \in [Call -> Request] /\ call[c].at = "query"
  BY DEF TypeOK, ProcessType, MeQuery, At
<1>2. UNCHANGED still /\ faults' \in 0 .. MaxFaults
  BY DEF MeQuery, still, TypeOK, ProcessType
<1>3. CASE Return(c)
  <2>1. Plain(c)
    BY <1>1, <1>3, Returns DEF Plain, Turns, Marked
  <2> QED
    BY <1>2, <2>1, PlainNext
<1>4. CASE account = "active" /\ call' = [call EXCEPT ![c].at = "store", ![c].copy = Row]
  <2> DEFINE x == [call[c] EXCEPT !.at = "store", !.copy = Row]
  <2>1. Row \in Profile
    BY DEF Row, Profile, TypeOK, UserType
  <2>2. x \in Request /\ x.at = "store" /\ x.copy = Row
    BY <1>1, <2>1 DEF Request, Place
  <2>3. call' = [call EXCEPT ![c] = x]
    BY <1>1, <1>4 DEF Request
  <2> HIDE DEF x
  <2>4. Turns(c, call'[c]) /\ call'[c].at = "store" /\ call'[c].copy = Row
    BY <1>1, <2>2, <2>3, Sets DEF Turns
  <2>5. SameWipes /\ SameErasures
    BY <1>1, <2>4, TurnIsUnseen
  <2>6. RequestInv'
    BY <2>4, RequestTurn DEF Sound
  <2>7. /\ UNCHANGED <<topic, account, name, onboarded, taken, session, profile, record, rows, media>>
        /\ UNCHANGED <<placed, work, issued, stored, excused, sweep, torn, robbed, halfway, settled>>
    BY <1>2 DEF still, userVars, cacheVars, mediaVars, fileVars, purgeVars
  <2>8. TypeOK'
    BY <1>2, <2>4, <2>7 DEF TypeOK, UserType, StoreType, ProcessType, Turns
  <2>9. CopyInv'
    BY <1>4, <2>4, <2>7 DEF CopyInv, Undisturbed, At, Row, Turns
  <2>10. SignedOutInv' /\ BucketInv' /\ SweepInv'
    BY <2>5, <2>7, SignedKept, BucketKept, SweepKept
  <2> QED
    BY <2>6, <2>8, <2>9, <2>10
<1> QED
  BY <1>3, <1>4 DEF MeQuery

LEMMA MeStoreNext ==
  ASSUME Inv, NEW c \in Call, MeStore(c)
  PROVE  Inv'
<1> USE DEF Inv
<1>1. call \in [Call -> Request] /\ call[c].at = "store"
  BY DEF TypeOK, ProcessType, MeStore, At
<1>2. /\ UNCHANGED <<topic, account, name, onboarded, taken, session, record, rows, media>>
      /\ UNCHANGED <<placed, work, issued, stored, excused, sweep, torn, robbed, halfway, settled>>
  BY DEF MeStore, userVars, mediaVars, fileVars, purgeVars
<1>3. profile' \in {profile, call[c].copy} /\ faults' \in 0 .. MaxFaults
  BY Failing DEF MeStore, TypeOK, ProcessType
<1>4. Turns(c, call'[c]) /\ call'[c].at = "idle"
  BY <1>1, Returns, Blank DEF MeStore, Turns
<1>5. SameWipes /\ SameCopies /\ SameErasures
  BY <1>1, <1>4, TurnIsUnseen
<1>6. RequestInv'
  BY <1>4, RequestTurn DEF Sound
<1>7. TypeOK'
  <2>1. profile' \in Profile
    BY <1>1, <1>3 DEF Request, TypeOK, StoreType
  <2> QED
    BY <1>2, <1>3, <1>4, <2>1 DEF TypeOK, UserType, StoreType, ProcessType, Turns
<1>8. CopyInv'
  BY <1>1, <1>2, <1>3, <1>5 DEF CopyInv, Undisturbed, SameCopies, At, Row, NoProfile
<1>9. SignedOutInv' /\ BucketInv' /\ SweepInv'
  BY <1>2, <1>5, SignedKept, BucketKept, SweepKept
<1> QED
  BY <1>6, <1>7, <1>8, <1>9

LEMMA LapseNext ==
  ASSUME Inv, ProfileLapses \/ RecordLapses
  PROVE  Inv'
<1> USE DEF Inv
<1>1. /\ UNCHANGED <<topic, account, name, onboarded, taken, session, call, rows, media>>
      /\ UNCHANGED <<placed, work, issued, stored, excused, sweep, torn, robbed, faults, halfway, settled>>
      /\ profile' \in {profile, NoProfile} /\ record' \in {record, NoName}
  BY DEF ProfileLapses, RecordLapses, userVars, mediaVars, fileVars, purgeVars
<1>2. SameWipes /\ SameCopies /\ SameErasures /\ RequestInv'
  BY <1>1, CallsKept
<1>3. TypeOK'
  BY <1>1, Blank DEF TypeOK, UserType, StoreType, ProcessType
<1>4. CopyInv'
  BY <1>1, <1>2 DEF CopyInv, Undisturbed, SameCopies, At, Row, NoProfile
<1>5. SignedOutInv' /\ BucketInv' /\ SweepInv'
  BY <1>1, <1>2, SignedKept, BucketKept, SweepKept
<1> QED
  BY <1>2, <1>3, <1>4, <1>5

\* The row changes only together with settled.
LEMMA RowNext ==
  ASSUME Inv, NEW c \in Call, OnboardWrite(c) \/ NameWrite(c)
  PROVE  Inv'
<1> USE DEF Inv
<1>1. Plain(c) /\ SameWipes /\ SameCopies /\ SameErasures /\ RequestInv'
  BY Moves, PlainIsUnseen, RequestTurn DEF Plain
<1>2. /\ UNCHANGED <<topic, account, taken, session, profile, record, rows, media>>
      /\ UNCHANGED <<placed, work, issued, stored, excused, sweep, torn, robbed, faults, halfway>>
  BY DEF OnboardWrite, NameWrite, cacheVars, mediaVars, fileVars, purgeVars
<1>3. /\ name' \in Name /\ onboarded' \in BOOLEAN /\ settled' \in BOOLEAN
      /\ account # "gone" => name' \notin taken
      /\ settled' => settled /\ UNCHANGED <<name, onboarded>>
  <2>1. CASE OnboardWrite(c)
    <3>1. UNCHANGED name
      BY <2>1 DEF OnboardWrite
    <3>2. CASE UNCHANGED <<onboarded, settled>>
      BY <3>1, <3>2 DEF TypeOK, UserType, ProcessType
    <3>3. CASE onboarded' = TRUE /\ settled' = (settled /\ onboarded)
      <4>1. settled' \in BOOLEAN /\ (settled' => settled /\ onboarded = TRUE)
        BY <3>3 DEF TypeOK, UserType, ProcessType
      <4> QED
        BY <3>1, <3>3, <4>1 DEF TypeOK, UserType
    <3> QED
      BY <2>1, <3>2, <3>3 DEF OnboardWrite
  <2>2. CASE NameWrite(c)
    <3>1. call[c].want \in Name
      BY <2>2 DEF NameWrite, At, RequestInv, Sound
    <3>2. UNCHANGED onboarded
      BY <2>2 DEF NameWrite
    <3>3. CASE UNCHANGED <<name, settled>>
      BY <3>2, <3>3 DEF TypeOK, UserType, ProcessType
    <3>4. CASE /\ name' = call[c].want /\ call[c].want \notin taken
               /\ settled' = (settled /\ name = call[c].want)
      <4>1. settled' \in BOOLEAN /\ (settled' => settled /\ name = call[c].want)
        BY <3>4 DEF TypeOK, ProcessType
      <4> QED
        BY <3>1, <3>2, <3>4, <4>1 DEF TypeOK, UserType
    <3> QED
      BY <2>2, <3>3, <3>4 DEF NameWrite, UsernameExists
  <2> QED
    BY <2>1, <2>2
<1>4. TypeOK'
  <2>1. call' \in [Call -> Request]
    BY <1>1 DEF Plain, Turns
  <2> QED
    BY <1>2, <1>3, <2>1 DEF TypeOK, UserType, StoreType, ProcessType
<1>5. CopyInv'
  BY <1>1, <1>2, <1>3 DEF CopyInv, SameCopies, Undisturbed, At, Row
<1>6. SignedOutInv' /\ BucketInv' /\ SweepInv'
  BY <1>1, <1>2, SignedKept, BucketKept, SweepKept
<1> QED
  BY <1>1, <1>4, <1>5, <1>6

LEMMA StoreRecordNext ==
  ASSUME Inv, NEW c \in Call, StoreRecord(c)
  PROVE  Inv'
<1> USE DEF Inv
<1>1. Plain(c) /\ SameWipes /\ SameCopies /\ SameErasures /\ RequestInv'
  BY Moves, PlainIsUnseen, RequestTurn DEF Plain
<1>2. /\ UNCHANGED <<topic, account, name, onboarded, taken, session, profile, rows, media>>
      /\ UNCHANGED <<placed, work, issued, stored, excused, sweep, torn, robbed, halfway, settled>>
  BY DEF StoreRecord, userVars, mediaVars, fileVars, purgeVars
<1>3. record' \in Name \cup {NoName} /\ faults' \in 0 .. MaxFaults
  BY Failing DEF StoreRecord, TypeOK, StoreType, ProcessType, Request
<1>4. TypeOK'
  <2>1. call' \in [Call -> Request]
    BY <1>1 DEF Plain, Turns
  <2> QED
    BY <1>2, <1>3, <2>1 DEF TypeOK, UserType, StoreType, ProcessType
<1>5. SignedOutInv' /\ CopyInv' /\ BucketInv' /\ SweepInv'
  BY <1>1, <1>2, SignedKept, CopyKept, BucketKept, SweepKept
<1> QED
  BY <1>1, <1>4, <1>5

LEMMA OthersTakeNext ==
  ASSUME Inv, NEW n \in Name, OthersTake(n)
  PROVE  Inv'
<1> USE DEF Inv
<1>1. /\ UNCHANGED <<topic, account, name, onboarded, session, profile, record, call, rows, media>>
      /\ UNCHANGED <<placed, work, issued, stored, excused, sweep, torn, robbed, faults, halfway, settled>>
      /\ taken' = taken \cup {n} /\ n # name
  BY DEF OthersTake, cacheVars, mediaVars, fileVars, purgeVars
<1>2. SameWipes /\ SameCopies /\ SameErasures /\ RequestInv'
  BY <1>1, CallsKept
<1>3. TypeOK'
  BY <1>1 DEF TypeOK, UserType, StoreType, ProcessType
<1>4. SignedOutInv' /\ CopyInv' /\ BucketInv' /\ SweepInv'
  BY <1>1, <1>2, SignedKept, CopyKept, BucketKept, SweepKept
<1> QED
  BY <1>2, <1>3, <1>4

-----------------------------------------------------------------------------
(* Media, and the removal of an account. *)

LEMMA UploadInsertNext ==
  ASSUME Inv, NEW c \in Call, UploadInsert(c)
  PROVE  Inv'
<1> USE DEF Inv
<1>1. Plain(c) /\ SameWipes /\ SameCopies /\ SameErasures /\ RequestInv'
  BY Moves, PlainIsUnseen, RequestTurn DEF Plain
<1>2. /\ UNCHANGED <<topic, account, name, onboarded, taken, session, profile, record, media>>
      /\ UNCHANGED <<placed, work, stored, excused, sweep, torn, robbed, faults, halfway, settled>>
  BY DEF UploadInsert, userVars, cacheVars, purgeVars, fileVars
<1>3. \/ UNCHANGED <<rows, issued>>
      \/ /\ account # "gone"
         /\ \E v \in Video \ issued : rows' = rows \cup {v} /\ issued' = issued \cup {v}
  BY DEF UploadInsert
<1>4. TypeOK'
  <2>1. call' \in [Call -> Request]
    BY <1>1 DEF Plain, Turns
  <2>2. /\ rows' \subseteq issued' /\ issued' \subseteq Video /\ issued \subseteq issued'
        /\ account = "gone" => rows' = rows
    BY <1>3 DEF TypeOK, StoreType
  <2> QED
    BY <1>2, <2>1, <2>2 DEF TypeOK, UserType, StoreType, ProcessType
<1>5. BucketInv'
  <2>1. NamedMedia' = NamedMedia
    BY <1>2, <1>3 DEF NamedMedia, Named, Object, BucketInv, TypeOK, StoreType
  <2> QED
    BY <1>1, <1>2, <1>3, <2>1 DEF BucketInv, SameErasures, Erasing
<1>6. SweepInv'
  <2>1. rows' \cap stored' = rows \cap stored
    BY <1>2, <1>3 DEF TypeOK, StoreType
  <2> QED
    BY <1>1, <1>2, <2>1 DEF SweepInv, Object, SameErasures, Erasing
<1>7. SignedOutInv' /\ CopyInv'
  BY <1>1, <1>2, SignedKept, CopyKept
<1> QED
  BY <1>1, <1>4, <1>5, <1>6, <1>7

\* A step of a client that uploads, or of the worker: what the rows name besides is excused, and
\* what they named is there as before.
LEMMA FilesNext ==
  ASSUME Inv, UNCHANGED <<topic, userVars, session, cacheVars, rows, issued, call, purgeVars>>,
         UNCHANGED <<faults, halfway, settled>>,
         placed' \subseteq stored', work' \in [Video -> {"none", "read", "stored"}],
         stored' \subseteq issued, media' \subseteq Media, excused' \subseteq Media,
         \A m \in media' : m[2] \in stored',
         \A v \in Video : work'[v] # "none" => v \in stored' \ placed',
         excused \subseteq excused',
         Purging => NamedMedia' \subseteq NamedMedia \cup excused',
         \A v \in rows \cap stored' :
           Object(v)' \in media' \/ (v \in stored /\ Object(v) \notin media)
             \/ (work[v] = "stored" /\ <<"copy", v>> \notin media),
         \A v \in Video :
           work'[v] = "stored" => <<"copy", v>> \in media' \/ (work[v] = "stored" /\ <<"copy", v>> \notin media)
  PROVE  Inv'
<1> USE DEF Inv
<1>1. /\ UNCHANGED <<topic, account, name, onboarded, taken, session, profile, record, rows, issued>>
      /\ UNCHANGED <<call, sweep, torn, robbed, faults, halfway, settled>>
  BY DEF userVars, cacheVars, purgeVars
<1>2. SameWipes /\ SameCopies /\ SameErasures /\ RequestInv'
  BY <1>1, CallsKept
<1>3. TypeOK'
  BY <1>1 DEF TypeOK, UserType, StoreType, ProcessType
<1>4. BucketInv'
  <2>1. Purging <=> account = "gone" \/ sweep.at = "erase" \/ \E c \in Call : Erasing(c)
    BY DEF Purging
  <2>2. CASE Purging
    BY <1>1, <2>1, <2>2 DEF BucketInv, Erasing
  <2>3. CASE ~Purging
    BY <1>1, <2>1, <2>3 DEF BucketInv, Erasing
  <2> QED
    BY <2>2, <2>3
<1>5. SweepInv'
  <2>1. ASSUME account # "gone", ~torn, sweep.at # "erase", ~(\E c \in Call : Erasing(c))
        PROVE  /\ \A v \in rows \cap stored' : Object(v)' \in media'
               /\ \A v \in Video : work'[v] = "stored" => <<"copy", v>> \in media'
    BY <2>1 DEF SweepInv, TypeOK, StoreType
  <2>2. (\E c \in Call : Erasing(c))' <=> \E c \in Call : Erasing(c)
    BY <1>1 DEF Erasing
  <2> QED
    BY <1>1, <2>1, <2>2 DEF SweepInv
<1>6. SignedOutInv' /\ CopyInv'
  BY <1>1, <1>2, SignedKept, CopyKept
<1> QED
  BY <1>2, <1>3, <1>4, <1>5, <1>6

\* The upload, and the steps of an attempt at a video.
LEMMA ArrivalNext ==
  ASSUME Inv, NEW v \in Video,
         Put(v) \/ WorkRead(v) \/ StoreCopy(v) \/ StoreThumb(v) \/ Publish(v) \/ WorkFails(v)
  PROVE  Inv'
<1> USE DEF Inv, BucketInv, TypeOK, StoreType
<1>1. {<<"raw", v>>, <<"copy", v>>, <<"thumb", v>>} \subseteq Media
  BY DEF Media
<1>2. CASE Put(v)
  <2>1. /\ UNCHANGED <<topic, userVars, session, cacheVars, rows, placed, work, issued, call, purgeVars>>
        /\ UNCHANGED <<faults, halfway, settled>>
        /\ media' = media \cup {<<"raw", v>>} /\ v \in issued /\ stored' = stored \cup {v}
        /\ excused' = IF Purging THEN excused \cup {<<"raw", v>>} ELSE excused
    BY <1>2 DEF Put, fileVars
  <2>2. Named(issued)' = Named(issued)
    BY <2>1 DEF Named, Object
  <2>3. Purging => NamedMedia' \subseteq NamedMedia \cup excused'
    BY <2>1, <2>2 DEF NamedMedia
  <2>4. \A w \in Video : Object(w)' = Object(w)
    BY <2>1 DEF Object
  <2>5. \A w \in rows \cap stored' :
          Object(w)' \in media' \/ (w \in stored /\ Object(w) \notin media)
            \/ (work[w] = "stored" /\ <<"copy", w>> \notin media)
    <3>1. ASSUME NEW w \in rows, w = v, w \notin stored PROVE Object(w)' \in media'
      BY <2>1, <2>4, <3>1 DEF Object
    <3>2. ASSUME NEW w \in rows \cap stored PROVE Object(w)' \in media' \/ Object(w) \notin media
      BY <2>1, <2>4
    <3> QED
      BY <2>1, <3>1, <3>2
  <2>6. /\ media' \subseteq Media /\ excused' \subseteq Media /\ excused \subseteq excused'
        /\ \A m \in media' : m[2] \in stored'
    BY <1>1, <2>1
  <2>7. /\ stored' \subseteq issued /\ placed' \subseteq stored' /\ work' \in [Video -> {"none", "read", "stored"}]
        /\ \A w \in Video : work'[w] # "none" => w \in stored' \ placed'
    BY <2>1
  <2>8. \A w \in Video :
          work'[w] = "stored" => <<"copy", w>> \in media' \/ (work[w] = "stored" /\ <<"copy", w>> \notin media)
    BY <2>1
  <2> QED
    BY <2>1, <2>3, <2>5, <2>6, <2>7, <2>8, FilesNext
<1>3. CASE WorkRead(v) \/ WorkFails(v)
  <2>1. /\ UNCHANGED <<topic, userVars, session, cacheVars, rows, placed, media, issued, stored, excused>>
        /\ UNCHANGED <<call, purgeVars, faults, halfway, settled>>
        /\ \/ work' = [work EXCEPT ![v] = "read"] /\ v \notin placed /\ <<"raw", v>> \in media
           \/ work' = [work EXCEPT ![v] = "none"]
    BY <1>3 DEF WorkRead, WorkFails
  <2>2. NamedMedia' = NamedMedia /\ \A w \in Video : Object(w)' = Object(w)
    BY <2>1 DEF NamedMedia, Named, Object
  <2>3. <<"raw", v>> \in media => v \in stored
    <3>1. <<"raw", v>>[2] = v
      OBVIOUS
    <3> QED
      BY <3>1
  <2>4. /\ work' \in [Video -> {"none", "read", "stored"}]
        /\ \A w \in Video : /\ work'[w] # "none" => w \in stored' \ placed'
                           /\ work'[w] = "stored" => work[w] = "stored"
    BY <2>1, <2>3
  <2>5. /\ \A w \in rows \cap stored' : w \in stored /\ Object(w)' = Object(w) /\ media' = media
        /\ \A w \in Video : work'[w] = "stored" => <<"copy", w>> \in media' \/ (work[w] = "stored" /\ <<"copy", w>> \notin media)
    BY <2>1, <2>2, <2>4
  <2> QED
    BY <2>1, <2>2, <2>4, <2>5, FilesNext
<1>4. CASE StoreCopy(v) \/ StoreThumb(v)
  <2>1. /\ UNCHANGED <<topic, userVars, session, cacheVars, rows, placed, issued, stored, excused>>
        /\ UNCHANGED <<call, purgeVars, faults, halfway, settled>>
        /\ work[v] # "none" /\ work' = [work EXCEPT ![v] = "stored"]
        /\ \/ media' = media \cup {<<"copy", v>>}
           \/ media' = media \cup {<<"thumb", v>>} /\ work[v] = "stored"
    BY <1>4 DEF StoreCopy, StoreThumb, fileVars
  <2>2. v \in stored \ placed
    BY <2>1
  <2>3. <<"copy", v>> \notin Named(issued) /\ <<"thumb", v>> \notin Named(issued)
    BY <2>2 DEF Named, Object
  <2>4. NamedMedia' = NamedMedia /\ \A w \in Video : Object(w)' = Object(w)
    BY <2>1, <2>3 DEF NamedMedia, Named, Object
  <2> QED
    BY <1>1, <2>1, <2>2, <2>4, FilesNext
<1>5. CASE Publish(v)
  <2>1. /\ UNCHANGED <<topic, userVars, session, cacheVars, rows, media, issued, stored>>
        /\ UNCHANGED <<call, purgeVars, faults, halfway, settled>>
        /\ work[v] = "stored" /\ work' = [work EXCEPT ![v] = "none"]
        /\ placed' = placed \cup ({v} \cap rows)
        /\ excused' = IF Purging THEN excused \cup ({"copy", "thumb"} \X {v}) ELSE excused
    BY <1>5 DEF Publish
  <2>2. {"copy", "thumb"} \X {v} \subseteq Media
    BY DEF Media
  <2>3. Named(issued)' \subseteq Named(issued) \cup ({"copy", "thumb"} \X {v})
    BY <2>1 DEF Named, Object
  <2>4. Purging => NamedMedia' \subseteq NamedMedia \cup excused'
    BY <2>1, <2>3 DEF NamedMedia
  <2>5. \A w \in Video : Object(w)' = IF w = v /\ v \in rows THEN <<"copy", v>> ELSE Object(w)
    BY <2>1 DEF Object
  <2>6. \A w \in rows \cap stored' :
          Object(w)' \in media' \/ (w \in stored /\ Object(w) \notin media)
            \/ (work[w] = "stored" /\ <<"copy", w>> \notin media)
    BY <2>1, <2>5
  <2> QED
    BY <2>1, <2>2, <2>4, <2>6, FilesNext
<1> QED
  BY <1>2, <1>3, <1>4, <1>5

\* The row of users goes, and what is in the bucket is excused.
LEMMA RemovalNext ==
  ASSUME Inv, RemoveUser, UNCHANGED <<topic, name, taken, profile, record, media, placed>>,
         UNCHANGED <<work, issued, stored, faults>>, call' \in [Call -> Request], RequestInv', robbed' = FALSE,
         sweep' \in [at : {"asleep", "list", "erase"}, left : SUBSET Media],
         excused' \subseteq Media, media \cap Named(issued) \subseteq excused'
  PROVE  Inv'
<1> USE DEF Inv
<1>1. /\ account' = "gone" /\ onboarded' = FALSE /\ settled' = FALSE /\ halfway' = FALSE
      /\ torn' = FALSE /\ rows' = {} /\ session' = [k \in Kind |-> {}]
  BY DEF RemoveUser
<1>2. UserType'
  BY <1>1 DEF TypeOK, UserType, AccountState
<1>3. StoreType'
  BY <1>1 DEF TypeOK, StoreType
<1>4. ProcessType'
  BY <1>1 DEF TypeOK, ProcessType
<1>5. SignedOutInv' /\ CopyInv' /\ BucketInv' /\ SweepInv'
  BY <1>1 DEF SignedOutInv, CopyInv, BucketInv, SweepInv, NamedMedia, Named, Object
<1> QED
  BY <1>2, <1>3, <1>4, <1>5 DEF TypeOK

LEMMA SweepNext ==
  ASSUME Inv, SweepSelect \/ SweepList
  PROVE  Inv'
<1> USE DEF Inv
<1>1. /\ UNCHANGED <<topic, account, name, onboarded, taken, session, profile, record, rows, media>>
      /\ UNCHANGED <<placed, work, issued, stored, excused, call, torn, robbed, faults, halfway, settled>>
  BY DEF SweepSelect, SweepList, userVars, cacheVars, mediaVars, fileVars
<1>2. SameWipes /\ SameCopies /\ SameErasures /\ RequestInv'
  BY <1>1, CallsKept
<1>3. SignedOutInv' /\ CopyInv'
  BY <1>1, <1>2, SignedKept, CopyKept
<1>4. CASE SweepSelect
  <2>1. sweep.at = "asleep" /\ account = "due" /\ sweep' = [at |-> "list", left |-> {}]
    BY <1>4 DEF SweepSelect
  <2>2. TypeOK'
    BY <1>1, <2>1 DEF TypeOK, UserType, StoreType, ProcessType
  <2>3. BucketInv'
    BY <1>1, <2>1, NamedKept DEF BucketInv, Erasing
  <2>4. SweepInv'
    BY <1>1, <2>1, NamedKept DEF SweepInv, Erasing
  <2> QED
    BY <1>2, <1>3, <2>2, <2>3, <2>4
<1>5. CASE SweepList
  <2> DEFINE all == Named(rows)
  <2>1. sweep.at = "list" /\ sweep' = [at |-> "erase", left |-> all]
    BY <1>5 DEF SweepList
  <2>2. all \subseteq Media
    BY DEF Named, Object, Media, TypeOK, StoreType
  <2>3. account # "gone" => NamedMedia \subseteq all
    BY DEF BucketInv, NamedMedia
  <2> HIDE DEF all
  <2>4. TypeOK'
    BY <1>1, <2>1, <2>2 DEF TypeOK, UserType, StoreType, ProcessType
  <2>5. BucketInv'
    BY <1>1, <2>1, <2>3, NamedKept DEF BucketInv, Erasing
  <2>6. SweepInv'
    BY <1>1, <2>1, NamedKept DEF SweepInv, Erasing
  <2> QED
    BY <1>2, <1>3, <2>4, <2>5, <2>6
<1> QED
  BY <1>4, <1>5

LEMMA SweepEraseNext ==
  ASSUME Inv, SweepErase
  PROVE  Inv'
<1> USE DEF Inv
<1>1. /\ UNCHANGED <<topic, account, name, onboarded, taken, session, profile, record, rows, issued>>
      /\ UNCHANGED <<placed, work, stored, call, torn, robbed, halfway, settled>>
  BY DEF SweepErase, userVars, cacheVars, fileVars
<1>2. SameWipes /\ SameCopies /\ SameErasures /\ RequestInv'
  BY <1>1, CallsKept
<1>3. sweep.at = "erase" /\ sweep \in [at : {"asleep", "list", "erase"}, left : SUBSET Media]
  BY DEF SweepErase, TypeOK, ProcessType
<1>4. PICK m \in sweep.left :
        /\ sweep' = [sweep EXCEPT !.left = @ \ {m}]
        /\ \/ media' = media \ {m} /\ UNCHANGED <<excused, faults>>
           \/ Fault /\ excused' = excused \cup {m} /\ UNCHANGED media
  BY DEF SweepErase
<1>5. /\ sweep' \in [at : {"asleep", "list", "erase"}, left : SUBSET Media]
      /\ sweep'.at = "erase" /\ sweep'.left = sweep.left \ {m}
  BY <1>3, <1>4
<1>6. faults' \in 0 .. MaxFaults /\ m \in Media
  BY <1>3, <1>4, Failing DEF TypeOK, ProcessType
<1>7. TypeOK'
  BY <1>1, <1>4, <1>5, <1>6 DEF TypeOK, UserType, StoreType, ProcessType
<1>8. BucketInv'
  <2>1. /\ media' \subseteq media /\ excused \subseteq excused'
        /\ \A x \in media' : x \in excused \cup sweep.left => x \in excused' \cup sweep'.left
    BY <1>4, <1>5
  <2>2. NamedMedia' \subseteq NamedMedia \cap media'
    BY <1>1, <2>1, NamedKept
  <2> QED
    BY <1>1, <1>3, <2>1, <2>2 DEF BucketInv, Erasing
<1>9. SweepInv'
  BY <1>1, <1>3, <1>5 DEF SweepInv, Erasing
<1>10. SignedOutInv' /\ CopyInv'
  BY <1>1, <1>2, SignedKept, CopyKept
<1> QED
  BY <1>2, <1>7, <1>8, <1>9, <1>10

LEMMA SweepRowNext ==
  ASSUME Inv, SweepRow
  PROVE  Inv'
<1> USE DEF Inv
<1>1. /\ UNCHANGED <<topic, name, taken, profile, record, media, placed, work, issued>>
      /\ UNCHANGED <<stored, excused, call, faults>>
      /\ sweep.at = "erase" /\ sweep.left = {} /\ sweep' = [at |-> "asleep", left |-> {}]
      /\ RemoveUser
  BY DEF SweepRow, cacheVars, fileVars
<1>2. robbed' = FALSE
  BY <1>1 DEF SweepRow, SweepInv, TypeOK, ProcessType
<1>3. media \cap Named(issued) \subseteq excused
  BY <1>1 DEF BucketInv, NamedMedia
<1>4. RequestInv'
  BY <1>1, CallsKept
<1>5. sweep' \in [at : {"asleep", "list", "erase"}, left : SUBSET Media]
  BY <1>1
<1> QED
  BY <1>1, <1>2, <1>3, <1>4, <1>5, RemovalNext DEF TypeOK, StoreType, ProcessType

LEMMA SweepCutNext ==
  ASSUME Inv, SweepCut
  PROVE  Inv'
<1> USE DEF Inv
<1>1. /\ UNCHANGED <<topic, account, name, onboarded, taken, session, profile, record, rows, media>>
      /\ UNCHANGED <<placed, work, issued, stored, excused, call, robbed, halfway, settled>>
      /\ sweep' = [at |-> "asleep", left |-> {}] /\ faults' \in 0 .. MaxFaults
      /\ torn' \in BOOLEAN
      /\ (torn' <=> (torn \/ (sweep.at # "list" /\ account # "gone")))
  BY Failing DEF SweepCut, userVars, cacheVars, mediaVars, fileVars, TypeOK, ProcessType
<1>2. SameWipes /\ SameCopies /\ SameErasures /\ RequestInv'
  BY <1>1, CallsKept
<1>3. TypeOK'
  BY <1>1 DEF TypeOK, UserType, StoreType, ProcessType
<1>4. BucketInv'
  BY <1>1, NamedKept DEF BucketInv, Erasing
<1>5. SweepInv'
  <2>1. sweep'.at = "asleep"
    BY <1>1
  <2>2. CASE account # "gone" /\ ~torn'
    <3>1. sweep.at = "list" /\ ~torn
      BY <1>1, <2>2
    <3> QED
      BY <1>1, <2>1, <3>1, NamedKept DEF SweepInv, Erasing
  <2>3. CASE account = "gone" \/ torn'
    BY <1>1, <2>1, <2>3 DEF SweepInv, Erasing
  <2> QED
    BY <2>2, <2>3
<1>6. SignedOutInv' /\ CopyInv'
  BY <1>1, <1>2, SignedKept, CopyKept
<1> QED
  BY <1>2, <1>3, <1>4, <1>5, <1>6

LEMMA HardDeleteListNext ==
  ASSUME Inv, NEW c \in Call, HardDeleteList(c)
  PROVE  Inv'
<1> USE DEF Inv
<1> DEFINE all == {Object(v) : v \in rows}
           x == [call[c] EXCEPT !.at = "erase", !.left = all]
<1>1. call \in [Call -> Request] /\ call[c].at = "list"
  BY DEF TypeOK, ProcessType, HardDeleteList, At
<1>2. /\ UNCHANGED <<topic, account, name, onboarded, taken, session, profile, record, rows, media>>
      /\ UNCHANGED <<placed, work, issued, stored, excused, sweep, torn, robbed, faults, halfway, settled>>
      /\ call' = [call EXCEPT ![c].at = "erase", ![c].left = all]
  BY DEF HardDeleteList, userVars, cacheVars, mediaVars, fileVars, purgeVars
<1>3. all \subseteq Media
  BY DEF Object, Media, TypeOK, StoreType
<1>4. account # "gone" => \A m \in NamedMedia : m[1] # "thumb" => m \in all
  BY DEF BucketInv, NamedMedia, Named
<1> HIDE DEF all
<1>5. x \in Request /\ x.at = "erase" /\ x.left = all
  BY <1>1, <1>3 DEF Request, Place
<1>6. call' = [call EXCEPT ![c] = x]
  BY <1>1, <1>2 DEF Request
<1> HIDE DEF x
<1>7. Turns(c, call'[c]) /\ call'[c].at = "erase" /\ call'[c].left = all
  BY <1>1, <1>5, <1>6, Sets DEF Turns
<1>8. SameWipes /\ SameCopies /\ RequestInv'
  BY <1>1, <1>7, TurnIsUnseen, RequestTurn DEF Sound
<1>9. TypeOK'
  BY <1>2, <1>7 DEF TypeOK, UserType, StoreType, ProcessType, Turns
<1>10. BucketInv'
  BY <1>2, <1>4, <1>7, NamedKept DEF BucketInv, Erasing, Turns
<1>11. SweepInv'
  BY <1>2, <1>7, NamedKept DEF SweepInv, Erasing
<1>12. SignedOutInv' /\ CopyInv'
  BY <1>2, <1>8, SignedKept, CopyKept
<1> QED
  BY <1>8, <1>9, <1>10, <1>11, <1>12

LEMMA HardDeleteEraseNext ==
  ASSUME Inv, NEW c \in Call, HardDeleteErase(c)
  PROVE  Inv'
<1> USE DEF Inv
<1>1. call \in [Call -> Request] /\ call[c].at = "erase"
  BY DEF TypeOK, ProcessType, HardDeleteErase, At
<1>2. /\ UNCHANGED <<topic, account, name, onboarded, taken, session, profile, record, rows>>
      /\ UNCHANGED <<placed, work, issued, stored, excused, sweep, torn, robbed, faults, halfway, settled>>
  BY DEF HardDeleteErase, userVars, cacheVars, purgeVars, fileVars
<1>3. PICK m \in call[c].left :
        media' = media \ {m} /\ call' = [call EXCEPT ![c].left = @ \ {m}]
  BY DEF HardDeleteErase
<1> DEFINE x == [call[c] EXCEPT !.left = @ \ {m}]
<1>4. x \in Request /\ x.at = "erase" /\ x.left = call[c].left \ {m} /\ x.op = call[c].op
  BY <1>1 DEF Request
<1>5. call' = [call EXCEPT ![c] = x]
  BY <1>1, <1>3 DEF Request
<1> HIDE DEF x
<1>6. Turns(c, call'[c]) /\ call'[c].at = "erase" /\ call'[c].left = call[c].left \ {m}
  BY <1>1, <1>4, <1>5, Sets DEF Turns
<1>7. SameWipes /\ SameCopies /\ RequestInv'
  BY <1>1, <1>6, TurnIsUnseen, RequestTurn DEF Sound
<1>8. TypeOK'
  BY <1>2, <1>3, <1>6 DEF TypeOK, UserType, StoreType, ProcessType, Turns
<1>9. BucketInv'
  <2>1. NamedMedia' \subseteq NamedMedia \cap media' /\ media' \subseteq media
    BY <1>2, <1>3, NamedKept
  <2> QED
    BY <1>1, <1>2, <1>3, <1>6, <2>1 DEF BucketInv, Erasing, Turns
<1>10. SweepInv'
  BY <1>2, <1>6 DEF SweepInv, Erasing
<1>11. SignedOutInv' /\ CopyInv'
  BY <1>2, <1>7, SignedKept, CopyKept
<1> QED
  BY <1>7, <1>8, <1>9, <1>10, <1>11

LEMMA HardDeleteRowNext ==
  ASSUME Inv, NEW c \in Call, HardDeleteRow(c)
  PROVE  Inv'
<1> USE DEF Inv
<1>1. call \in [Call -> Request] /\ call[c].at = "erase" /\ call[c].left = {}
  BY DEF TypeOK, ProcessType, HardDeleteRow, At
<1>2. /\ UNCHANGED <<topic, name, taken, profile, record, media, placed, work, issued>>
      /\ UNCHANGED <<stored, sweep, robbed, faults>>
      /\ excused' = excused \cup {m \in media : m[1] = "thumb"}
      /\ RemoveUser
  BY DEF HardDeleteRow, cacheVars, fileVars
<1>3. Turns(c, call'[c]) /\ call'[c].at \in {"idle", "drop"}
  <2>1. "drop" \in Place
    BY DEF Place
  <2>2. CASE Return(c)
    BY <1>1, <2>2, Returns, Blank DEF Turns
  <2>3. CASE Goto(c, "drop")
    BY <1>1, <2>1, <2>3, Goes
  <2> QED
    BY <2>2, <2>3 DEF HardDeleteRow
<1>4. RequestInv'
  BY <1>3, RequestTurn DEF Sound
<1>5. media \cap Named(issued) \subseteq excused'
  <2>1. ASSUME NEW m \in NamedMedia PROVE m \in excused \/ m[1] = "thumb"
    BY <1>1, <2>1 DEF BucketInv, Erasing
  <2> QED
    BY <1>2, <2>1 DEF NamedMedia
<1>6. robbed' = FALSE
  BY <1>2 DEF SweepInv, TypeOK, ProcessType
<1>7. excused' \subseteq Media
  BY <1>2 DEF TypeOK, StoreType
<1> QED
  BY <1>2, <1>3, <1>4, <1>5, <1>6, <1>7, RemovalNext DEF TypeOK, ProcessType, Turns

-----------------------------------------------------------------------------
(* The theorems. *)

LEMMA InvInit == ASSUME Init PROVE Inv
<1>1. Idle.at = "idle" /\ Idle.op = "none" /\ Idle \in Request /\ NoProfile \in Profile
  BY Blank
<1>2. (CHOOSE n \in Name : TRUE) \in Name
  BY AccountAssumption
<1>3. TypeOK
  <2>1. UserType
    BY <1>2 DEF Init, UserType, AccountState
  <2>2. StoreType
    BY <1>1 DEF Init, StoreType
  <2>3. ProcessType
    <3>1. call \in [Call -> Request]
      BY <1>1 DEF Init
    <3>2. faults \in 0 .. MaxFaults
      BY AccountAssumption DEF Init
    <3>3. sweep \in [at : {"asleep", "list", "erase"}, left : SUBSET Media]
      BY DEF Init
    <3> QED
      BY <3>1, <3>2, <3>3 DEF Init, ProcessType
  <2> QED
    BY <2>1, <2>2, <2>3 DEF TypeOK
<1>4. \A c \in Call : call[c].at = "idle"
  BY <1>1 DEF Init
<1>5. RequestInv /\ SignedOutInv /\ BucketInv /\ SweepInv
  BY <1>4 DEF Init, RequestInv, Sound, SignedOutInv, BucketInv, SweepInv, Erasing
<1>6. CopyInv
  BY <1>4 DEF Init, CopyInv, Undisturbed, At
<1> QED
  BY <1>3, <1>5, <1>6 DEF Inv

LEMMA InvNext == ASSUME Inv, [Next]_vars PROVE Inv'
<1>1. CASE UNCHANGED vars
  <2>1. /\ UNCHANGED <<topic, account, name, onboarded, taken, session, profile, record, rows, media>>
        /\ UNCHANGED <<placed, work, issued, stored, excused, call, sweep, torn, robbed, faults, halfway, settled>>
    BY <1>1 DEF vars, userVars, cacheVars, mediaVars, fileVars, purgeVars
  <2>2. TypeOK'
    BY <2>1 DEF Inv, TypeOK, UserType, StoreType, ProcessType
  <2> QED
    BY <2>1, <2>2, CallsKept, SignedKept, CopyKept, BucketKept, SweepKept DEF Inv
<1>2. ASSUME NEW c \in Call,
             \/ LoginRead(c) \/ AdminSession(c) \/ DevLogin(c) \/ ExtensionCheck(c)
             \/ AdminExtension(c) \/ RefreshRead(c) \/ LogoutAll(c) \/ DeleteBegin(c) \/ GetMe(c)
             \/ OnboardRead(c) \/ (\E n \in Name : NameBegin(c, n) \/ AdminName(c, n))
             \/ UploadCheck(c) \/ HardDeleteRead(c)
      PROVE  Inv'
  <2>1. Plain(c) /\ UNCHANGED still /\ faults' \in 0 .. MaxFaults
    BY <1>2, Opens DEF Inv
  <2> QED
    BY <2>1, PlainNext
<1>3. ASSUME NEW c \in Call, NameRecord(c) \/ NameRead(c) \/ NameTaken(c) PROVE Inv'
  <2>1. Plain(c)
    BY <1>3, Moves DEF Inv
  <2>2. UNCHANGED still /\ faults' \in 0 .. MaxFaults
    BY <1>3 DEF NameRecord, NameRead, NameTaken, still, Inv, TypeOK, ProcessType
  <2> QED
    BY <2>1, <2>2, PlainNext
<1>4. ASSUME NEW c \in Call,
             \/ LoginUpdate(c) \/ Issue(c) \/ ExtensionInsert(c) \/ RefreshRotate(c)
             \/ WipeRefresh(c) \/ WipeExtension(c) \/ DeleteMark(c) \/ CallCut(c)
      PROVE  Inv'
  BY <1>4, LoginUpdateNext, SessionNext, WipeRefreshNext, WipeExtensionNext, DeleteMarkNext,
     CallCutNext
<1>5. ASSUME NEW c \in Call,
             \/ DropProfile(c) \/ MeQuery(c) \/ MeStore(c) \/ OnboardWrite(c) \/ NameWrite(c)
             \/ StoreRecord(c)
      PROVE  Inv'
  BY <1>5, DropProfileNext, MeQueryNext, MeStoreNext, RowNext, StoreRecordNext
<1>6. ASSUME NEW c \in Call,
             UploadInsert(c) \/ HardDeleteList(c) \/ HardDeleteErase(c) \/ HardDeleteRow(c)
      PROVE  Inv'
  BY <1>6, UploadInsertNext, HardDeleteListNext, HardDeleteEraseNext, HardDeleteRowNext
<1>7. CASE DeletionAges \/ ProfileLapses \/ RecordLapses \/ \E n \in Name : OthersTake(n)
  BY <1>7, DeletionAgesNext, LapseNext, OthersTakeNext
<1>8. CASE \E v \in Video : \/ Put(v) \/ WorkRead(v) \/ StoreCopy(v) \/ StoreThumb(v)
                            \/ Publish(v) \/ WorkFails(v)
  BY <1>8, ArrivalNext
<1>9. CASE SweepSelect \/ SweepList \/ SweepErase \/ SweepRow \/ SweepCut
  BY <1>9, SweepNext, SweepEraseNext, SweepRowNext, SweepCutNext
<1> QED
  BY <1>1, <1>2, <1>3, <1>4, <1>5, <1>6, <1>7, <1>8, <1>9 DEF Next

\* The parts above hold of every reachable state.
THEOREM AccountInvariant == Spec => []Inv
BY InvInit, InvNext, PTL DEF Spec

\* Every variable has its type: nobody else has the name of an account that exists, and the rows
\* and sessions of a removed account are gone with it.
THEOREM AccountTypes == Spec => []TypeOK
BY AccountInvariant, PTL DEF Inv

\* A deleted account is signed out once its deletion is over.
THEOREM DeletionSignsOut == Spec => []DeletedIsSignedOut
<1>1. ASSUME Inv PROVE DeletedIsSignedOut
  <2>1. SUFFICES ASSUME account \in {"deleted", "due"}, ~halfway,
                        ~\E c \in Call : /\ call[c].op = "delete"
                                         /\ call[c].at \in {"wipeRefresh", "wipeExtension"}
                 PROVE  \A k \in Kind : "own" \notin session[k]
    BY DEF DeletedIsSignedOut
  <2>2. \A k \in Kind : ~WipeLeft(k)
    BY <2>1 DEF WipeLeft
  <2> QED
    BY <1>1, <2>1, <2>2 DEF Inv, SignedOutInv
<1> QED
  BY <1>1, AccountInvariant, PTL

\* After an update or a deletion has dropped the cached profile, what is served is the row, and
\* nothing for an account that is deleted.
THEOREM ServedProfileFollows == Spec => []ProfileFollows
<1>1. ASSUME Inv PROVE ProfileFollows
  BY <1>1 DEF Inv, CopyInv, ProfileFollows
<1> QED
  BY <1>1, AccountInvariant, PTL

\* A removed account leaves nothing in storage that its rows named and that is not excused, an
\* account in use has what its rows name, and the sweep removes no account in use.
THEOREM PurgesAreRight == Spec => []PurgeIsRight
<1>1. ASSUME Inv PROVE PurgeIsRight
  BY <1>1 DEF Inv, BucketInv, NamedMedia, SweepInv, PurgeIsRight
<1> QED
  BY <1>1, AccountInvariant, PTL
=============================================================================
