-------------------------- MODULE RateLimitsProofs --------------------------
(***************************************************************************)
(* The proofs of the limits, for any number of requests and uploads, any   *)
(* limits, and any number of failed commands.                              *)
(*                                                                         *)
(* The bounds are not inductive: the requests that have read a counter and *)
(* not yet counted are missing from them.  With Past(k) the requests past  *)
(* the check of key k, what was served and what is past the check are      *)
(* together within the bound (CountInv): a request passes only while the   *)
(* counter, and so what was served less the faults, is below the limit,    *)
(* and there are at most Racing others past.                               *)
(*                                                                         *)
(* The bytes of downloads need more, since the one that passes last brings *)
(* its own size and not a whole file (ByteInv): either every download that *)
(* is due fits with a file each, or one of them fits with its own size and *)
(* the others with a file each.                                            *)
(*                                                                         *)
(* For the quota of uploads (QuotaInv) every byte is either charged, or    *)
(* owed by a DRAFT, or about to be inserted, and together these stay       *)
(* within the limit, what was open when the last upload was let in, and    *)
(* what was let in unmeasured or charged twice.  Sets of byte tokens take  *)
(* the place of the sums over uploads, so that a sum is a cardinality.     *)
(* LockInv ties a confirmation to the row it holds, so that its charge is  *)
(* charged against the right upload.                                       *)
(***************************************************************************)
EXTENDS RateLimits, FiniteSetTheorems, TLAPS

\* Where the calls of an endpoint can be, and the keys they are about.
PlaceOf ==
  [e \in Endpoint |->
     CASE e = "requests" -> {"idle", "incr", "expire"}
       [] e = "download" -> {"idle", "bandwidth", "charge", "expireBytes", "count", "expireCount"}
       [] e = "refresh" -> {"idle", "count", "expireCount"}
       [] e = "upload" -> {"idle", "insert", "charge", "expireBytes", "commit"}
       [] e = "otc" -> {"idle"}]

PlaceInv ==
  \A c \in Call :
    pc[c] \in PlaceOf[endpoint] /\ key[c] # "bytes" /\ (endpoint # "requests" => key[c] = "count")

Confirming(c) == endpoint = "upload" /\ pc[c] \in {"charge", "expireBytes", "commit"}

\* A confirmation holds the row it is about, and nobody else holds one.
LockInv ==
  /\ \A c \in Call : Confirming(c) => draft[c] \in Upload /\ lock[draft[c]] = c
  /\ \A d \in Upload : lock[d] # NoCall => Confirming(lock[d])

\* The calls that have passed the check of key k and have still to count.
Past(k) ==
  {c \in Call : /\ key[c] = k
                /\ \/ pc[c] \in {"incr", "bandwidth", "count"}
                   \/ endpoint = "download" /\ pc[c] \in {"charge", "expireBytes"}}

\* What has been served and what is past the check are together within the bound.
CountInv ==
  \A k \in {"count", "other"} :
    /\ served[k] <= counter[k] + faults
    /\ served[k] + Cardinality(Past(k)) <= MaxCount + Racing + faults

\* The downloads that have still to charge their bytes.
Due == {c \in Call : endpoint = "download" /\ pc[c] = "charge"}

Files(n) == n * MaxSize

\* The last download let in found room for its bytes; the others add a file each at most.
ByteInv ==
  LET most == MaxBytes + Files(Racing + faults)
  IN /\ served["bytes"] <= counter["bytes"] + Files(faults)
     /\ \A c \in Due : size[c] <= MaxBytes
     /\ \/ served["bytes"] + Files(Cardinality(Due)) <= most
        \/ \E c \in Due : served["bytes"] + size[c] + Files(Cardinality(Due) - 1) <= most

\* What the confirmation that holds upload d has charged for it.
Charged(d) ==
  IF lock[d] # NoCall /\ pc[lock[d]] \in {"expireBytes", "commit"} THEN size[lock[d]] ELSE 0

\* The bytes of open uploads that have still to be charged.
Uncharged ==
  {t \in Upload \X Size : status[t[1]] = "DRAFT" /\ Charged(t[1]) < t[2] /\ t[2] <= declared[t[1]]}

QuotaInv ==
  counter["bytes"] + Cardinality(Uncharged) + Cardinality(ComingBytes) <= MaxBytes + peak + slack

Inv ==
  /\ TypeOK /\ PlaceInv /\ LockInv /\ CountInv
  /\ endpoint = "download" => ByteInv
  /\ endpoint = "upload" => QuotaInv

-----------------------------------------------------------------------------
(* Numbers and sets. *)

LEMMA Constants ==
  /\ MaxCount \in Nat /\ MaxCount >= 1 /\ MaxBytes \in Nat /\ MaxSize \in Nat /\ MaxSize >= 1
  /\ Tolerance \in Nat /\ MaxFaults \in Nat
  /\ IsFiniteSet(Call) /\ Cardinality(Call) \in Nat /\ Racing \in Nat /\ Cardinality(Call) = Racing + 1
  /\ NoCall \notin Call /\ NoUpload \notin Upload /\ IsFiniteSet(Upload)
<1>1. IsFiniteSet(Call) /\ Call # {}
  BY LimitAssumption
<1>2. Cardinality(Call) \in Nat /\ Cardinality(Call) # 0
  BY <1>1, FS_CardinalityType, FS_EmptySet
<1> QED
  BY <1>1, <1>2, LimitAssumption DEF Racing

LEMMA FileSum ==
  /\ Files(0) = 0
  /\ \A n \in Nat : Files(n) \in Nat /\ Files(n + 1) = Files(n) + MaxSize
  /\ \A m, n \in Nat : m <= n => Files(m) <= Files(n)
  /\ \A m, n \in Nat : Files(m + n) = Files(m) + Files(n)
<1> USE Constants DEF Files
<1>1. Files(0) = 0
  OBVIOUS
<1>2. ASSUME NEW n \in Nat PROVE Files(n) \in Nat /\ Files(n + 1) = Files(n) + MaxSize
  OBVIOUS
<1>3. ASSUME NEW m \in Nat, NEW n \in Nat PROVE Files(m + n) = Files(m) + Files(n)
  OBVIOUS
<1>4. ASSUME NEW m \in Nat, NEW n \in Nat, m <= n PROVE Files(m) <= Files(n)
  <2>1. PICK d \in Nat : n = m + d
    <3>1. n - m \in Nat /\ n = m + (n - m)
      BY <1>4
    <3> QED
      BY <3>1
  <2>2. Files(n) = Files(m) + Files(d) /\ Files(m) \in Nat /\ Files(d) \in Nat
    BY <1>2, <1>3, <2>1
  <2> QED
    BY <2>2
<1> QED
  BY <1>1, <1>2, <1>3, <1>4

\* Calls are few.
LEMMA CallSets ==
  ASSUME NEW P \in SUBSET Call, NEW Q \in SUBSET Call
  PROVE  /\ Cardinality(P) \in Nat /\ Cardinality(P) <= Racing + 1
         /\ Q \subseteq P => Cardinality(Q) <= Cardinality(P)
         /\ \A c \in Call : /\ c \in P => Cardinality(P \ {c}) = Cardinality(P) - 1
                            /\ c \notin P => Cardinality(P \cup {c}) = Cardinality(P) + 1
                            /\ c \in P => Cardinality(P) >= 1
<1>1. IsFiniteSet(P) /\ IsFiniteSet(Q) /\ Cardinality(P) <= Cardinality(Call)
  BY Constants, FS_Subset
<1>2. Cardinality(P) \in Nat
  BY <1>1, FS_CardinalityType
<1>3. Q \subseteq P => Cardinality(Q) <= Cardinality(P)
  BY <1>1, FS_Subset
<1>4. ASSUME NEW c \in Call
      PROVE  /\ c \in P => Cardinality(P \ {c}) = Cardinality(P) - 1
             /\ c \notin P => Cardinality(P \cup {c}) = Cardinality(P) + 1
  BY <1>1, FS_AddElement, FS_RemoveElement
<1>5. ASSUME NEW c \in P PROVE Cardinality(P) >= 1
  <2>1. Cardinality(P) # 0
    BY <1>1, FS_EmptySet
  <2> QED
    BY <1>2, <2>1
<1> QED
  BY <1>1, <1>2, <1>3, <1>4, <1>5, Constants

LEMMA ByteSets ==
  ASSUME NEW S, IsFiniteSet(S), NEW T \in SUBSET (S \X Size)
  PROVE  IsFiniteSet(T) /\ Cardinality(T) \in Nat
<1>1. IsFiniteSet(Size)
  BY Constants, FS_Interval DEF Size
<1>2. IsFiniteSet(S \X Size)
  BY <1>1, FS_Product
<1> QED
  BY <1>2, FS_Subset, FS_CardinalityType

\* The bytes of x, from the one after lo to the one at hi, among a set of bytes.
LEMMA BytesOf ==
  ASSUME NEW S, IsFiniteSet(S), NEW T \in SUBSET (S \X Size),
         NEW x \in S, NEW lo \in Nat, NEW hi \in Nat, lo <= hi, hi <= MaxSize,
         \A i \in Size : <<x, i>> \in T <=> lo < i /\ i <= hi
  PROVE  /\ Cardinality({t \in T : t[1] # x}) \in Nat
         /\ Cardinality(T) = Cardinality({t \in T : t[1] # x}) + (hi - lo)
<1> DEFINE rest == {t \in T : t[1] # x}
           own == {x} \X (lo + 1 .. hi)
<1>1. T = rest \cup own
  <2>1. ASSUME NEW t \in T, t[1] = x PROVE t \in own
    <3>1. t = <<x, t[2]>> /\ t[2] \in Size
      BY <2>1
    <3>2. t[2] \in lo + 1 .. hi
      BY <3>1 DEF Size
    <3> QED
      BY <3>1, <3>2
  <2>2. ASSUME NEW t \in own PROVE t \in T
    <3>1. t = <<x, t[2]>> /\ t[2] \in lo + 1 .. hi
      OBVIOUS
    <3>2. t[2] \in Size /\ lo < t[2] /\ t[2] <= hi
      BY <3>1, Constants DEF Size
    <3> QED
      BY <3>1, <3>2
  <2> QED
    BY <2>1, <2>2
<1>2. rest \cap own = {}
  OBVIOUS
<1>3. IsFiniteSet(rest) /\ Cardinality(rest) \in Nat
  BY ByteSets, FS_Subset, FS_CardinalityType
<1>4. IsFiniteSet(own) /\ Cardinality(own) = hi - lo
  <2>1. IsFiniteSet({x}) /\ Cardinality({x}) = 1
    BY FS_Singleton
  <2>2. IsFiniteSet(lo + 1 .. hi) /\ Cardinality(lo + 1 .. hi) = hi - lo
    <3>1. lo + 1 \in Int /\ hi \in Int
      OBVIOUS
    <3>2. /\ IsFiniteSet(lo + 1 .. hi)
          /\ Cardinality(lo + 1 .. hi) = IF lo + 1 > hi THEN 0 ELSE hi - (lo + 1) + 1
      BY <3>1, FS_Interval
    <3> QED
      BY <3>2
  <2>3. IsFiniteSet(own) /\ Cardinality(own) = Cardinality({x}) * Cardinality(lo + 1 .. hi)
    BY <2>1, <2>2, FS_Product
  <2> QED
    BY <2>1, <2>2, <2>3
<1>5. Cardinality(rest \cup own) = Cardinality(rest) + Cardinality(own)
                                     - Cardinality(rest \cap own)
  BY <1>3, <1>4, FS_Union
<1>6. Cardinality(rest \cap own) = 0
  BY <1>2, FS_EmptySet
<1>7. Cardinality(T) = Cardinality(rest \cup own)
  BY <1>1
<1>8. Cardinality(rest) \in Nat /\ Cardinality(T) = Cardinality(rest) + (hi - lo)
  <2> HIDE DEF rest, own
  <2> QED
    BY <1>3, <1>4, <1>5, <1>6, <1>7
<1> QED
  BY <1>8

-----------------------------------------------------------------------------
(* The calls and the rows. *)

\* Only call c goes on.
Alone(c) ==
  /\ CallType'
  /\ \A b \in Call \ {c} : /\ pc'[b] = pc[b] /\ key'[b] = key[b]
                          /\ size'[b] = size[b] /\ draft'[b] = draft[b]

CallInv == endpoint \in Endpoint /\ CallType /\ RowType /\ PlaceInv /\ LockInv

LEMMA Places ==
  /\ PlaceOf["requests"] = {"idle", "incr", "expire"}
  /\ PlaceOf["download"] = {"idle", "bandwidth", "charge", "expireBytes", "count", "expireCount"}
  /\ PlaceOf["refresh"] = {"idle", "count", "expireCount"}
  /\ PlaceOf["upload"] = {"idle", "insert", "charge", "expireBytes", "commit"}
  /\ PlaceOf["otc"] = {"idle"}
BY DEF PlaceOf, Endpoint

\* Where a call is says which endpoint it is about.
LEMMA WhereCalls ==
  ASSUME endpoint \in Endpoint, PlaceInv, NEW c \in Call
  PROVE  /\ pc[c] \in {"incr", "expire"} => endpoint = "requests"
         /\ pc[c] = "bandwidth" => endpoint = "download"
         /\ pc[c] \in {"count", "expireCount"} => endpoint \in {"download", "refresh"}
         /\ pc[c] \in {"insert", "commit"} => endpoint = "upload"
         /\ pc[c] \in {"charge", "expireBytes"} => endpoint \in {"download", "upload"}
BY Places DEF PlaceInv, Endpoint

LEMMA Returned ==
  ASSUME CallType, NEW c \in Call, Return(c)
  PROVE  Alone(c) /\ pc'[c] = "idle" /\ key'[c] = "count"
<1>1. NoUpload \in Upload \cup {NoUpload} /\ 0 \in 0 .. MaxSize
  BY Constants
<1> QED
  BY <1>1 DEF Return, At, Alone, CallType, Place, Key

LEMMA Moved ==
  ASSUME CallType, NEW c \in Call, NEW p \in Place, At(c, p), UNCHANGED <<key, draft, bypass>>,
         NEW n \in 0 .. MaxSize, size' = size \/ size' = [size EXCEPT ![c] = n]
  PROVE  Alone(c) /\ pc'[c] = p
BY DEF At, Alone, CallType

\* A request returns, and with it what it holds.
LEMMA ReturnKeeps ==
  ASSUME CallInv, NEW c \in Call, Return(c), UNCHANGED endpoint,
         status' \in [Upload -> {"none", "DRAFT", "PROCESSING"}], declared' \in [Upload -> 0 .. MaxSize],
         \A d \in Upload : lock[d] \notin {c, NoCall} => status'[d] = "DRAFT"
  PROVE  CallInv'
<1> USE DEF CallInv
<1>1. Alone(c) /\ pc'[c] = "idle" /\ key'[c] = "count"
  BY Returned
<1>2. lock' = [d \in Upload |-> IF lock[d] = c THEN NoCall ELSE lock[d]]
  BY DEF Return
<1>3. lock' \in [Upload -> Call \cup {NoCall}]
  BY <1>2 DEF RowType
<1>4. ASSUME NEW d \in Upload, lock'[d] # NoCall
      PROVE  lock'[d] = lock[d] /\ lock[d] \in Call \ {c}
  BY <1>2, <1>4, Constants DEF RowType
<1>5. RowType'
  BY <1>1, <1>3, <1>4 DEF RowType, Alone
<1>6. PlaceInv'
  BY <1>1, Places DEF PlaceInv, Alone, Endpoint
<1>7. LockInv'
  <2>1. ASSUME NEW b \in Call, Confirming(b)' PROVE draft'[b] \in Upload /\ lock'[draft'[b]] = b
    <3>1. b # c /\ Confirming(b) /\ draft'[b] = draft[b]
      BY <1>1, <2>1 DEF Confirming, Alone
    <3> QED
      BY <1>2, <3>1 DEF LockInv
  <2>2. ASSUME NEW d \in Upload, lock'[d] # NoCall
        PROVE  endpoint' = "upload" /\ pc'[lock'[d]] \in {"charge", "expireBytes", "commit"}
    BY <1>1, <1>4, <2>2 DEF LockInv, Confirming, Alone
  <2> QED
    BY <2>1, <2>2 DEF LockInv, Confirming
<1> QED
  BY <1>1, <1>5, <1>6, <1>7 DEF Alone

\* A request goes on with the row it holds, if any.
LEMMA StayKeeps ==
  ASSUME CallInv, NEW c \in Call, Alone(c), UNCHANGED <<endpoint, lock, status, declared, draft>>,
         pc'[c] \in PlaceOf[endpoint], key'[c] # "bytes", endpoint # "requests" => key'[c] = "count",
         Confirming(c)' <=> Confirming(c)
  PROVE  CallInv'
<1> USE DEF CallInv
<1>1. PlaceInv'
  BY DEF PlaceInv, Alone
<1>2. RowType'
  BY DEF RowType
<1>3. \A b \in Call : Confirming(b)' <=> Confirming(b)
  BY DEF Alone, Confirming
<1>4. LockInv'
  BY <1>3, Constants DEF LockInv, Confirming, RowType
<1> QED
  BY <1>1, <1>2, <1>4 DEF Alone

LEMMA NextKeyKeeps ==
  ASSUME CallInv, NEW c \in Call, NextKey(c), UNCHANGED <<endpoint, status, declared>>,
         endpoint = "requests"
  PROVE  CallInv'
<1> USE DEF CallInv
<1>1. CASE Return(c)
  BY <1>1, ReturnKeeps DEF RowType, Endpoint
<1>2. CASE /\ key' = [key EXCEPT ![c] = "other"] /\ At(c, "idle")
           /\ UNCHANGED <<size, draft, bypass, lock>>
  <2>1. Alone(c) /\ pc'[c] = "idle" /\ key'[c] = "other"
    BY <1>2 DEF At, Alone, CallType, Place, Key
  <2>2. Confirming(c)' <=> Confirming(c)
    BY DEF Confirming
  <2> QED
    BY <1>2, <2>1, <2>2, StayKeeps, Places
<1> QED
  BY <1>1, <1>2 DEF NextKey

\* The steps of a request that returns or stays.
LEMMA RequestsKeep ==
  ASSUME CallInv, NEW c \in Call, Check(c) \/ CheckIncr(c) \/ CheckExpire(c)
  PROVE  CallInv'
<1> USE DEF CallInv
<1>1. endpoint = "requests" /\ UNCHANGED <<endpoint, status, declared>> /\ pc[c] \in Place
  BY DEF Check, CheckIncr, CheckExpire, CallType
<1>2. CASE Return(c)
  BY <1>1, <1>2, ReturnKeeps DEF RowType, Endpoint
<1>3. CASE NextKey(c)
  BY <1>1, <1>3, NextKeyKeeps
<1>4. ASSUME NEW p \in {"incr", "expire"}, At(c, p), UNCHANGED <<key, size, draft, bypass, lock>>
      PROVE  CallInv'
  <2>1. Alone(c) /\ pc'[c] = p
    BY <1>4, Moved, Constants DEF Place
  <2>2. Confirming(c)' <=> Confirming(c)
    BY <1>1 DEF Confirming
  <2>3. key'[c] # "bytes"
    BY <1>4 DEF PlaceInv
  <2> QED
    BY <1>1, <1>4, <2>1, <2>2, <2>3, StayKeeps, Places
<1> QED
  BY <1>2, <1>3, <1>4 DEF Check, CheckIncr, CheckExpire, RefuseStrictly

\* A step that only moves c on, and perhaps sets its size.
LEMMA MoveKeeps ==
  ASSUME CallInv, NEW c \in Call, NEW p \in Place, At(c, p), p \in PlaceOf[endpoint],
         UNCHANGED <<endpoint, key, draft, bypass, rowVars>>,
         NEW n \in 0 .. MaxSize, size' = size \/ size' = [size EXCEPT ![c] = n],
         Confirming(c) <=> (endpoint = "upload" /\ p \in {"charge", "expireBytes", "commit"})
  PROVE  CallInv' /\ Alone(c) /\ pc'[c] = p
<1>1. Alone(c) /\ pc'[c] = p
  BY Moved DEF CallInv
<1>2. key'[c] # "bytes" /\ (endpoint # "requests" => key'[c] = "count")
  BY DEF CallInv, PlaceInv
<1>3. Confirming(c)' <=> Confirming(c)
  BY <1>1 DEF Confirming
<1> QED
  BY <1>1, <1>2, <1>3, StayKeeps DEF rowVars

LEMMA DownloadsKeep ==
  ASSUME CallInv, NEW c \in Call,
         \/ DownloadCheck(c) \/ (\E n \in Size : DownloadBandwidth(c, n)) \/ DownloadCharge(c)
         \/ ExpireBytes(c) \/ DownloadCount(c) \/ DownloadExpireCount(c)
  PROVE  CallInv'
<1> USE DEF CallInv
<1>1. pc[c] \in PlaceOf[endpoint] /\ 0 \in 0 .. MaxSize /\ Size \subseteq 0 .. MaxSize
  BY Constants DEF PlaceInv, Size
<1>2. \/ DownloadCheck(c) \/ (\E n \in Size : DownloadBandwidth(c, n)) \/ DownloadCharge(c)
      \/ ExpireBytes(c)
      => UNCHANGED <<endpoint, key, draft, bypass, rowVars>>
  BY DEF DownloadCheck, DownloadBandwidth, DownloadCharge, ExpireBytes
<1>3. CASE DownloadCheck(c)
  <2>1. UNCHANGED <<endpoint, key, draft, bypass, rowVars>>
    BY <1>2, <1>3
  <2>2. /\ endpoint \in {"download", "refresh"} /\ pc[c] = "idle" /\ UNCHANGED size
        /\ At(c, IF endpoint = "download" THEN "bandwidth" ELSE "count")
    BY <1>3 DEF DownloadCheck
  <2> QED
    BY <1>1, <2>1, <2>2, MoveKeeps, Places DEF Place, Confirming
<1>4. ASSUME NEW n \in Size, DownloadBandwidth(c, n) PROVE CallInv'
  <2>1. UNCHANGED <<endpoint, key, draft, bypass, rowVars>>
    BY <1>2, <1>4
  <2>2. pc[c] = "bandwidth" /\ At(c, "charge") /\ size' = [size EXCEPT ![c] = n]
    BY <1>4 DEF DownloadBandwidth
  <2> QED
    BY <1>1, <2>1, <2>2, WhereCalls, MoveKeeps, Places DEF Place, Confirming
<1>5. CASE DownloadCharge(c)
  <2>1. UNCHANGED <<endpoint, key, draft, bypass, rowVars>>
    BY <1>2, <1>5
  <2>2. endpoint = "download" /\ UNCHANGED size /\ pc[c] = "charge"
    BY <1>5 DEF DownloadCharge
  <2>3. At(c, "expireBytes") \/ At(c, "count")
    BY <1>5 DEF DownloadCharge
  <2> QED
    BY <1>1, <2>1, <2>2, <2>3, MoveKeeps, Places DEF Place, Confirming
<1>6. CASE DownloadCount(c)
  <2>1. pc[c] = "count" /\ UNCHANGED <<endpoint, status, declared>>
    BY <1>6 DEF DownloadCount
  <2>2. CASE At(c, "expireCount") /\ UNCHANGED <<key, size, draft, bypass, lock>>
    <3>1. UNCHANGED rowVars
      BY <2>1, <2>2 DEF rowVars
    <3> QED
      BY <1>1, <2>1, <2>2, <3>1, WhereCalls, MoveKeeps, Places DEF Place, Confirming
  <2>3. CASE Return(c)
    BY <2>1, <2>3, ReturnKeeps DEF RowType
  <2> QED
    BY <1>6, <2>2, <2>3 DEF DownloadCount
<1>7. CASE ExpireBytes(c)
  <2>1. UNCHANGED <<endpoint, key, draft, bypass, rowVars>>
    BY <1>2, <1>7
  <2>2. /\ pc[c] = "expireBytes" /\ UNCHANGED size
        /\ At(c, IF endpoint = "download" THEN "count" ELSE "commit")
    BY <1>7 DEF ExpireBytes
  <2>3. CASE endpoint = "download"
    BY <1>1, <2>1, <2>2, <2>3, MoveKeeps, Places DEF Place, Confirming
  <2>4. CASE endpoint = "upload"
    BY <1>1, <2>1, <2>2, <2>4, MoveKeeps, Places DEF Place, Confirming
  <2> QED
    BY <2>2, <2>3, <2>4, WhereCalls
<1>8. CASE DownloadExpireCount(c)
  BY <1>8, ReturnKeeps DEF DownloadExpireCount, RowType
<1> QED
  BY <1>3, <1>4, <1>5, <1>6, <1>7, <1>8

LEMMA ConfirmLockKeeps ==
  ASSUME CallInv, NEW c \in Call, NEW d \in Upload, NEW n \in Size, ConfirmLock(c, d, n)
  PROVE  CallInv'
<1> USE DEF CallInv
<1>1. /\ endpoint = "upload" /\ pc[c] = "idle" /\ status[d] = "DRAFT" /\ lock[d] = NoCall
      /\ UNCHANGED <<endpoint, key, status, declared>>
  BY DEF ConfirmLock
<1>2. Alone(c) /\ pc'[c] = "charge" /\ draft'[c] = d
  <2>1. n \in 0 .. MaxSize
    BY Constants DEF Size
  <2>2. bypass' \subseteq Call
    BY DEF ConfirmLock, CallType
  <2> QED
    BY <1>1, <2>1, <2>2 DEF ConfirmLock, At, Alone, CallType, Place
<1>3. lock' = [lock EXCEPT ![d] = c]
  BY DEF ConfirmLock
<1>4. \A e \in Upload : lock[e] # c
  BY <1>1, Constants DEF LockInv, Confirming
<1>5. RowType'
  BY <1>1, <1>2, <1>3, <1>4 DEF RowType, Alone
<1>6. PlaceInv'
  BY <1>1, <1>2, Places DEF PlaceInv, Alone
<1>7. LockInv'
  <2>1. ASSUME NEW b \in Call, Confirming(b)' PROVE draft'[b] \in Upload /\ lock'[draft'[b]] = b
    <3>1. CASE b = c
      BY <1>2, <1>3, <3>1 DEF RowType
    <3>2. CASE b # c
      <4>1. Confirming(b) /\ draft'[b] = draft[b]
        BY <1>1, <1>2, <2>1, <3>2 DEF Confirming, Alone
      <4>2. draft[b] \in Upload /\ lock[draft[b]] = b /\ draft[b] # d
        BY <1>1, <4>1, Constants DEF LockInv
      <4> QED
        BY <1>3, <4>1, <4>2 DEF RowType
    <3> QED
      BY <3>1, <3>2
  <2>2. ASSUME NEW e \in Upload, lock'[e] # NoCall
        PROVE  endpoint' = "upload" /\ pc'[lock'[e]] \in {"charge", "expireBytes", "commit"}
    <3>1. CASE e = d
      BY <1>1, <1>2, <1>3, <3>1 DEF Confirming, RowType
    <3>2. CASE e # d
      BY <1>1, <1>2, <1>3, <1>4, <2>2, <3>2 DEF Confirming, LockInv, Alone, RowType
    <3> QED
      BY <3>1, <3>2
  <2> QED
    BY <2>1, <2>2 DEF LockInv, Confirming
<1> QED
  BY <1>1, <1>2, <1>5, <1>6, <1>7 DEF Alone

LEMMA UploadsKeep ==
  ASSUME CallInv, NEW c \in Call,
         \/ (\E n \in Size : UploadRead(c, n)) \/ (\E d \in Upload : UploadInsert(c, d))
         \/ ConfirmCharge(c) \/ ConfirmCommit(c) \/ CallCut(c)
  PROVE  CallInv'
<1> USE DEF CallInv
<1>1. 0 \in 0 .. MaxSize /\ Size \subseteq 0 .. MaxSize
  BY Constants DEF Size
<1>2. ASSUME NEW n \in Size, UploadRead(c, n) PROVE CallInv'
  <2>1. /\ endpoint = "upload" /\ pc[c] = "idle" /\ At(c, "insert") /\ size' = [size EXCEPT ![c] = n]
        /\ UNCHANGED <<endpoint, key, draft, bypass, rowVars>>
    BY <1>2 DEF UploadRead
  <2> QED
    BY <1>1, <2>1, MoveKeeps, Places DEF Place, Confirming
<1>3. ASSUME NEW d \in Upload, UploadInsert(c, d) PROVE CallInv'
  <2>1. /\ Return(c) /\ UNCHANGED endpoint /\ status[d] = "none"
        /\ status' = [status EXCEPT ![d] = "DRAFT"] /\ declared' = [declared EXCEPT ![d] = size[c]]
    BY <1>3 DEF UploadInsert, InsertDraft
  <2>2. /\ status' \in [Upload -> {"none", "DRAFT", "PROCESSING"}]
        /\ declared' \in [Upload -> 0 .. MaxSize]
        /\ \A e \in Upload : lock[e] # NoCall => status'[e] = "DRAFT"
    BY <2>1 DEF RowType, CallType
  <2> QED
    BY <2>1, <2>2, ReturnKeeps
<1>4. CASE ConfirmCharge(c)
  <2>1. /\ endpoint = "upload" /\ pc[c] = "charge"
        /\ At(c, "expireBytes") \/ At(c, "commit")
        /\ UNCHANGED <<endpoint, key, size, draft, bypass, rowVars>>
    BY <1>4 DEF ConfirmCharge
  <2> QED
    BY <1>1, <2>1, MoveKeeps, Places DEF Place, Confirming
<1>5. CASE ConfirmCommit(c)
  <2>1. /\ Return(c) /\ UNCHANGED <<endpoint, declared>> /\ pc[c] = "commit"
        /\ status' = [status EXCEPT ![draft[c]] = "PROCESSING"]
    BY <1>5 DEF ConfirmCommit
  <2>2. draft[c] \in Upload /\ lock[draft[c]] = c
    BY <2>1, WhereCalls DEF LockInv, Confirming
  <2>3. /\ status' \in [Upload -> {"none", "DRAFT", "PROCESSING"}]
        /\ \A e \in Upload : lock[e] \notin {c, NoCall} => status'[e] = "DRAFT"
    BY <2>1, <2>2 DEF RowType
  <2> QED
    BY <2>1, <2>3, ReturnKeeps DEF RowType
<1>6. CASE CallCut(c)
  BY <1>6, ReturnKeeps DEF CallCut, RowType
<1> QED
  BY <1>2, <1>3, <1>4, <1>5, <1>6

LEMMA CallsKept ==
  ASSUME CallInv, [Next]_vars
  PROVE  CallInv'
<1> USE DEF CallInv
<1>1. ASSUME NEW d \in Upload, NEW n \in Size, AdminInit(d, n) PROVE CallInv'
  <2>1. /\ endpoint = "upload" /\ UNCHANGED <<endpoint, pc, key, size, draft, bypass, lock>>
        /\ status' = [status EXCEPT ![d] = "DRAFT"] /\ declared' = [declared EXCEPT ![d] = n]
    BY <1>1 DEF AdminInit, InsertDraft, callVars
  <2>2. n \in 0 .. MaxSize
    BY Constants DEF Size
  <2>3. CallType' /\ PlaceInv' /\ LockInv'
    BY <2>1 DEF CallType, PlaceInv, LockInv, Confirming
  <2>4. RowType'
    BY <2>1, <2>2 DEF RowType
  <2> QED
    BY <2>1, <2>3, <2>4
<1>2. CASE UNCHANGED <<endpoint, callVars, rowVars>>
  <2>1. UNCHANGED <<endpoint, pc, key, size, draft, bypass, status, declared, lock>>
    BY <1>2 DEF callVars, rowVars
  <2> QED
    BY <2>1 DEF CallType, RowType, PlaceInv, LockInv, Confirming
<1>3. ASSUME NEW c \in Call, Proceed(c) PROVE CallInv'
  BY <1>3, RequestsKeep, DownloadsKeep, UploadsKeep DEF Proceed
<1>4. ASSUME NEW c \in Call,
             \/ Check(c) \/ DownloadCheck(c) \/ CallCut(c)
             \/ \E n \in Size : UploadRead(c, n) \/ \E d \in Upload : ConfirmLock(c, d, n)
      PROVE  CallInv'
  BY <1>4, RequestsKeep, DownloadsKeep, UploadsKeep, ConfirmLockKeeps
<1>5. ASSUME NEW k \in Key, Lapse(k) PROVE CallInv'
  BY <1>2, <1>5 DEF Lapse
<1>6. CASE OtcAttempt \/ WindowEnds \/ OtcCleanup
  BY <1>2, <1>6 DEF OtcAttempt, WindowEnds, OtcCleanup
<1>7. CASE UNCHANGED vars
  BY <1>2, <1>7 DEF vars
<1> QED
  BY <1>1, <1>3, <1>4, <1>5, <1>6, <1>7 DEF Next

-----------------------------------------------------------------------------
(* The counters. *)

LEMMA IncrKeeps ==
  ASSUME RedisType, NEW k \in Key, NEW n \in Nat, Incr(k, n) \/ Uncounted(k, n),
         UNCHANGED <<ttl, lost>>
  PROVE  RedisType'
<1>1. /\ counter' \in [Key -> Nat] /\ served' \in [Key -> Nat]
      /\ \A j \in Key : counter[j] > 0 => counter'[j] > 0
  BY DEF Incr, Uncounted, RedisType
<1> QED
  BY <1>1 DEF RedisType

LEMMA ExpiryKeeps ==
  ASSUME RedisType, NEW k \in Key, Expire(k) \/ LoseExpiry(k), UNCHANGED <<counter, served>>
  PROVE  RedisType'
BY DEF RedisType, Expire, LoseExpiry

LEMMA RedisKept ==
  ASSUME RedisType, CallInv, [Next]_vars
  PROVE  RedisType'
<1> USE DEF CallInv
<1>1. "count" \in Key /\ "bytes" \in Key /\ 1 \in Nat
  BY DEF Key
<1>2. CASE UNCHANGED redisVars
  <2>1. UNCHANGED <<counter, ttl, served, lost>>
    BY <1>2 DEF redisVars
  <2> QED
    BY <2>1 DEF RedisType
<1>3. ASSUME NEW c \in Call PROVE key[c] \in Key /\ size[c] \in Nat
  BY Constants DEF CallType
<1>4. ASSUME NEW c \in Call, Check(c) PROVE RedisType'
  BY <1>1, <1>2, <1>3, <1>4, IncrKeeps DEF Check, RefuseStrictly
<1>5. ASSUME NEW c \in Call, CheckIncr(c) PROVE RedisType'
  BY <1>1, <1>2, <1>3, <1>5, IncrKeeps DEF CheckIncr, RefuseStrictly
<1>6. ASSUME NEW c \in Call, CheckExpire(c) PROVE RedisType'
  BY <1>3, <1>6, ExpiryKeeps DEF CheckExpire
<1>7. ASSUME NEW c \in Call, DownloadCheck(c) PROVE RedisType'
  BY <1>2, <1>7 DEF DownloadCheck
<1>8. ASSUME NEW c \in Call, NEW n \in Size, DownloadBandwidth(c, n) \/ UploadRead(c, n)
      PROVE  RedisType'
  BY <1>2, <1>8 DEF DownloadBandwidth, UploadRead
<1>9. ASSUME NEW c \in Call, DownloadCharge(c) \/ DownloadCount(c) PROVE RedisType'
  BY <1>1, <1>3, <1>9, IncrKeeps DEF DownloadCharge, DownloadCount
<1>10. ASSUME NEW c \in Call, ExpireBytes(c) \/ DownloadExpireCount(c) PROVE RedisType'
  BY <1>1, <1>10, ExpiryKeeps DEF ExpireBytes, DownloadExpireCount
<1>11. ASSUME NEW c \in Call, ConfirmCharge(c) PROVE RedisType'
  BY <1>1, <1>2, <1>3, <1>11, IncrKeeps DEF ConfirmCharge, redisVars
<1>12. ASSUME NEW c \in Call, NEW d \in Upload,
              UploadInsert(c, d) \/ ConfirmCommit(c) \/ \E n \in Size : ConfirmLock(c, d, n)
       PROVE  RedisType'
  BY <1>2, <1>12 DEF UploadInsert, ConfirmCommit, ConfirmLock
<1>13. ASSUME NEW c \in Call, ConfirmCommit(c) PROVE RedisType'
  BY <1>2, <1>13 DEF ConfirmCommit
<1>14. ASSUME NEW c \in Call, CallCut(c) PROVE RedisType'
  <2>1. UNCHANGED <<counter, served>>
    BY <1>14 DEF CallCut
  <2>2. CASE UNCHANGED <<ttl, lost>>
    BY <1>2, <2>1, <2>2 DEF redisVars
  <2>3. ASSUME NEW k \in Key, LoseExpiry(k) PROVE RedisType'
    BY <2>1, <2>3, ExpiryKeeps
  <2>4. CASE pc[c] = "expire"
    BY <1>3, <1>14, <2>3, <2>4 DEF CallCut
  <2>5. CASE pc[c] = "expireBytes"
    BY <1>1, <1>14, <2>3, <2>5 DEF CallCut
  <2>6. CASE pc[c] = "expireCount"
    BY <1>1, <1>14, <2>3, <2>6 DEF CallCut
  <2> QED
    BY <1>14, <2>2, <2>4, <2>5, <2>6 DEF CallCut
<1>15. ASSUME NEW k \in Key, Lapse(k) PROVE RedisType'
  BY <1>15 DEF Lapse, RedisType
<1>16. CASE \/ OtcAttempt \/ WindowEnds \/ OtcCleanup \/ UNCHANGED vars
            \/ \E d \in Upload, n \in Size : AdminInit(d, n)
  BY <1>2, <1>16 DEF OtcAttempt, WindowEnds, OtcCleanup, vars, AdminInit
<1>17. ASSUME NEW c \in Call, Proceed(c) PROVE RedisType'
  BY <1>5, <1>6, <1>8, <1>9, <1>10, <1>11, <1>12, <1>13, <1>17 DEF Proceed
<1> QED
  BY <1>4, <1>7, <1>8, <1>12, <1>14, <1>15, <1>16, <1>17 DEF Next

LEMMA OpenIsNat ==
  ASSUME NEW c \in Call
  PROVE  OtherOpen(c) \in Nat
<1>1. OpenBytes \subseteq Upload \X Size /\ {t \in ComingBytes : t[1] # c} \subseteq Call \X Size
  BY DEF OpenBytes, ComingBytes
<1> QED
  BY <1>1, ByteSets, Constants DEF OtherOpen

\* Failures are never forgotten.
LEMMA FaultsGrow ==
  ASSUME faults \in 0 .. MaxFaults, [Next]_vars
  PROVE  faults' \in {faults, faults + 1} /\ faults' \in 0 .. MaxFaults
<1>1. UNCHANGED faults \/ Fault
  <2>1. ASSUME NEW c \in Call, Proceed(c) PROVE UNCHANGED faults \/ Fault
    BY <2>1
    DEF Proceed, CheckIncr, CheckExpire, DownloadBandwidth, DownloadCharge, ExpireBytes, DownloadCount,
        DownloadExpireCount, UploadInsert, ConfirmCharge, ConfirmCommit, RefuseStrictly
  <2>2. ASSUME NEW c \in Call,
               \/ Check(c) \/ DownloadCheck(c) \/ CallCut(c)
               \/ \E n \in Size : UploadRead(c, n) \/ \E d \in Upload : ConfirmLock(c, d, n)
        PROVE  UNCHANGED faults \/ Fault
    BY <2>2 DEF Check, DownloadCheck, CallCut, UploadRead, ConfirmLock, RefuseStrictly
  <2>3. CASE \/ OtcAttempt \/ WindowEnds \/ OtcCleanup \/ UNCHANGED vars
             \/ (\E d \in Upload, n \in Size : AdminInit(d, n)) \/ (\E k \in Key : Lapse(k))
    BY <2>3 DEF OtcAttempt, WindowEnds, OtcCleanup, vars, AdminInit, Lapse
  <2> QED
    BY <2>1, <2>2, <2>3 DEF Next
<1> QED
  BY <1>1, Constants DEF Fault

LEMMA TypeKept ==
  ASSUME TypeOK, PlaceInv, LockInv, [Next]_vars
  PROVE  TypeOK'
<1> USE DEF TypeOK
<1>1. CallInv
  BY DEF CallInv
<1>2. CallType' /\ RowType' /\ endpoint' \in Endpoint
  BY <1>1, CallsKept DEF CallInv
<1>3. RedisType'
  BY <1>1, RedisKept
<1>4. faults' \in 0 .. MaxFaults
  BY FaultsGrow
<1>5. attempts' \in 0 .. MaxCount /\ age' \in {"open", "over", "old"} /\ peak' \in Nat /\ slack' \in Nat
  <2>1. CASE UNCHANGED <<otcVars, quotaVars>>
    BY <2>1 DEF otcVars, quotaVars
  <2>2. CASE OtcAttempt \/ WindowEnds \/ OtcCleanup
    BY <2>2, Constants DEF OtcAttempt, WindowEnds, OtcCleanup, quotaVars
  <2>3. ASSUME NEW d \in Upload, NEW n \in Size, AdminInit(d, n)
        PROVE  attempts' = attempts /\ age' = age /\ peak' \in Nat /\ slack' \in Nat
    BY <2>3, Constants DEF AdminInit, otcVars, Size
  <2>4. ASSUME NEW c \in Call, NEW n \in Size, UploadRead(c, n)
        PROVE  attempts' = attempts /\ age' = age /\ peak' \in Nat /\ slack' \in Nat
    <3>1. UNCHANGED <<attempts, age>> /\ n \in Nat
      BY <2>4, Constants DEF UploadRead, otcVars, Size
    <3>2. peak' \in {peak, OtherOpen(c)} /\ slack' \in {slack, slack + n}
      BY <2>4 DEF UploadRead
    <3> QED
      BY <3>1, <3>2, OpenIsNat
  <2>5. ASSUME NEW c \in Call, ConfirmCharge(c)
        PROVE  attempts' = attempts /\ age' = age /\ peak' \in Nat /\ slack' \in Nat
    <3>1. endpoint = "upload" /\ pc[c] = "charge"
      BY <2>5 DEF ConfirmCharge
    <3>2. size[c] \in Nat /\ declared[draft[c]] \in Nat
      BY <3>1, Constants DEF LockInv, Confirming, RowType, CallType
    <3>3. UNCHANGED <<attempts, age, peak>>
      BY <2>5 DEF ConfirmCharge, otcVars
    <3>4. \/ UNCHANGED slack
          \/ slack' = slack + (IF size[c] > declared[draft[c]] THEN size[c] - declared[draft[c]] ELSE 0)
      BY <2>5 DEF ConfirmCharge
    <3> QED
      BY <3>2, <3>3, <3>4
  <2>6. ASSUME NEW c \in Call, CallCut(c)
        PROVE  attempts' = attempts /\ age' = age /\ peak' \in Nat /\ slack' \in Nat
    <3>1. size[c] \in Nat /\ UNCHANGED <<attempts, age, peak>> /\ slack' \in {slack, slack + size[c]}
      BY <2>6, Constants DEF CallCut, otcVars, CallType
    <3> QED
      BY <3>1
  <2>7. ASSUME NEW c \in Call,
               \/ CheckIncr(c) \/ CheckExpire(c) \/ (\E n \in Size : DownloadBandwidth(c, n))
               \/ DownloadCharge(c) \/ ExpireBytes(c) \/ DownloadCount(c) \/ DownloadExpireCount(c)
               \/ (\E d \in Upload : UploadInsert(c, d)) \/ ConfirmCommit(c)
        PROVE  UNCHANGED <<otcVars, quotaVars>>
    BY <2>7
    DEF CheckIncr, CheckExpire, DownloadBandwidth, DownloadCharge, ExpireBytes, DownloadCount,
        DownloadExpireCount, UploadInsert, ConfirmCommit
  <2>8. ASSUME NEW c \in Call,
               Check(c) \/ DownloadCheck(c) \/ \E n \in Size, d \in Upload : ConfirmLock(c, d, n)
        PROVE  UNCHANGED <<otcVars, quotaVars>>
    BY <2>8 DEF Check, DownloadCheck, ConfirmLock
  <2>9. CASE UNCHANGED vars \/ \E k \in Key : Lapse(k)
    BY <2>1, <2>9 DEF vars, Lapse
  <2>10. ASSUME NEW c \in Call, Proceed(c)
         PROVE  UNCHANGED <<otcVars, quotaVars>> \/ ConfirmCharge(c)
    BY <2>7, <2>10 DEF Proceed
  <2> QED
    BY <2>1, <2>2, <2>3, <2>4, <2>5, <2>6, <2>8, <2>9, <2>10 DEF Next
<1> QED
  BY <1>2, <1>3, <1>4, <1>5

-----------------------------------------------------------------------------
(* The limits on requests. *)

Within(k) ==
  /\ served[k] <= counter[k] + faults
  /\ served[k] + Cardinality(Past(k)) <= MaxCount + Racing + faults

\* What a step may do to the limit of key k: nothing, end the window, let a call in below the
\* limit, count one that was past the check, or serve one uncounted because a command failed.
LEMMA LimitSteps ==
  ASSUME RedisType, RedisType', faults \in Nat, faults' \in Nat, NEW k \in {"count", "other"}, Within(k),
         \/ /\ Past(k)' \subseteq Past(k) /\ served'[k] = served[k] /\ counter'[k] = counter[k]
            /\ faults' >= faults
         \/ served'[k] = 0
         \/ /\ counter[k] < MaxCount /\ served'[k] = served[k] /\ counter'[k] = counter[k]
            /\ faults' = faults
         \/ /\ \E c \in Past(k) : Past(k)' \subseteq Past(k) \ {c}
            /\ served'[k] = served[k] + 1 /\ counter'[k] = counter[k] + 1 /\ faults' = faults
         \/ /\ Past(k)' \subseteq Past(k)
            /\ served'[k] = served[k] + 1 /\ counter'[k] = counter[k] /\ faults' = faults + 1
         \/ /\ \E c \in Call : Past(k)' \subseteq Past(k) \cup {c}
            /\ served'[k] = served[k] /\ counter'[k] = counter[k] /\ faults' = faults + 1
  PROVE  Within(k)'
<1> DEFINE P == Past(k)
           Q == Past(k)'
<1>1. P \subseteq Call /\ Q \subseteq Call
  BY DEF Past
<1>2. /\ Cardinality(P) \in Nat /\ Cardinality(Q) \in Nat /\ Cardinality(Q) <= Racing + 1
      /\ Q \subseteq P => Cardinality(Q) <= Cardinality(P)
  BY <1>1, CallSets
<1>3. ASSUME NEW c \in P, Q \subseteq P \ {c} PROVE Cardinality(Q) <= Cardinality(P) - 1
  <2>1. Cardinality(P \ {c}) = Cardinality(P) - 1
    BY <1>1, CallSets
  <2>2. P \ {c} \subseteq Call
    BY <1>1
  <2>3. Cardinality(Q) <= Cardinality(P \ {c})
    BY <1>1, <1>3, <2>2, CallSets
  <2> QED
    BY <2>1, <2>3
<1>4. ASSUME NEW c \in Call, Q \subseteq P \cup {c} PROVE Cardinality(Q) <= Cardinality(P) + 1
  <2>1. CASE c \in P
    <3>1. Q \subseteq P
      BY <1>4, <2>1
    <3> QED
      BY <1>2, <3>1
  <2>2. CASE c \notin P
    <3>1. Cardinality(P \cup {c}) = Cardinality(P) + 1
      BY <1>1, <2>2, CallSets
    <3>2. P \cup {c} \subseteq Call
      BY <1>1
    <3>3. Cardinality(Q) <= Cardinality(P \cup {c})
      BY <1>1, <1>4, <3>2, CallSets
    <3> QED
      BY <3>1, <3>3
  <2> QED
    BY <2>1, <2>2
<1>5. /\ served[k] \in Nat /\ served'[k] \in Nat /\ counter[k] \in Nat /\ counter'[k] \in Nat
  BY DEF RedisType, Key
<1>6. /\ served[k] <= counter[k] + faults
      /\ served[k] + Cardinality(P) <= MaxCount + Racing + faults
  BY DEF Within
<1> HIDE DEF P, Q
<1>7. /\ served'[k] <= counter'[k] + faults'
      /\ served'[k] + Cardinality(Q) <= MaxCount + Racing + faults'
  <2>1. CASE Q \subseteq P /\ served'[k] = served[k] /\ counter'[k] = counter[k] /\ faults' >= faults
    BY <1>2, <1>5, <1>6, <2>1, Constants
  <2>2. CASE served'[k] = 0
    BY <1>2, <1>5, <1>6, <2>2, Constants
  <2>3. CASE /\ counter[k] < MaxCount /\ served'[k] = served[k] /\ counter'[k] = counter[k]
             /\ faults' = faults
    BY <1>2, <1>5, <1>6, <2>3, Constants
  <2>4. CASE /\ \E c \in P : Q \subseteq P \ {c}
             /\ served'[k] = served[k] + 1 /\ counter'[k] = counter[k] + 1 /\ faults' = faults
    BY <1>2, <1>3, <1>5, <1>6, <2>4, Constants
  <2>5. CASE /\ Q \subseteq P
             /\ served'[k] = served[k] + 1 /\ counter'[k] = counter[k] /\ faults' = faults + 1
    BY <1>2, <1>5, <1>6, <2>5, Constants
  <2>6. CASE /\ \E c \in Call : Q \subseteq P \cup {c}
             /\ served'[k] = served[k] /\ counter'[k] = counter[k] /\ faults' = faults + 1
    BY <1>2, <1>5, <1>6, <1>4, <2>6, Constants
  <2> QED
    BY <2>1, <2>2, <2>3, <2>4, <2>5, <2>6 DEF P, Q
<1> QED
  BY <1>7 DEF Within, P, Q, Racing

LEMMA PastOthers ==
  ASSUME NEW c \in Call, Alone(c), UNCHANGED endpoint, NEW k \in {"count", "other"}
  PROVE  /\ (c \in Past(k)' => c \in Past(k)) => Past(k)' \subseteq Past(k)
         /\ c \notin Past(k)' => Past(k)' \subseteq Past(k) \ {c}
BY DEF Past, Alone

LEMMA NextKeyMoves ==
  ASSUME CallType, NEW c \in Call, NextKey(c)
  PROVE  Alone(c) /\ pc'[c] = "idle"
<1>1. CASE Return(c)
  BY <1>1, Returned
<1>2. CASE /\ key' = [key EXCEPT ![c] = "other"] /\ At(c, "idle")
           /\ UNCHANGED <<size, draft, bypass, lock>>
  BY <1>2 DEF At, Alone, CallType, Place, Key
<1> QED
  BY <1>1, <1>2 DEF NextKey

\* The keys that a counting step is not about.
LEMMA Counted ==
  ASSUME RedisType, NEW k \in Key, NEW n \in Nat
  PROVE  /\ Incr(k, n) =>
              /\ counter'[k] = counter[k] + n /\ served'[k] = served[k] + n
              /\ \A j \in Key \ {k} : counter'[j] = counter[j] /\ served'[j] = served[j]
         /\ Uncounted(k, n) =>
              /\ counter' = counter /\ served'[k] = served[k] + n
              /\ \A j \in Key \ {k} : served'[j] = served[j]
BY DEF RedisType, Incr, Uncounted

LEMMA RequestLimits ==
  ASSUME TypeOK, TypeOK', PlaceInv, NEW c \in Call, Check(c) \/ CheckIncr(c) \/ CheckExpire(c),
         NEW k \in {"count", "other"}, Within(k)
  PROVE  Within(k)'
<1> USE DEF TypeOK
<1>1. /\ faults \in Nat /\ faults' \in Nat /\ 1 \in Nat /\ k \in Key /\ key[c] \in Key
  BY Constants DEF Key, CallType
<1>2. endpoint = "requests" /\ UNCHANGED endpoint
  BY DEF Check, CheckIncr, CheckExpire
<1>3. ASSUME pc'[c] \notin {"incr", "bandwidth", "count"}, Alone(c)
      PROVE  Past(k)' \subseteq Past(k) \ {c}
  <2>1. c \notin Past(k)'
    BY <1>2, <1>3 DEF Past
  <2> QED
    BY <1>2, <1>3, <2>1, PastOthers
<1>4. ASSUME UNCHANGED <<counter, served>>, faults' >= faults, Return(c) \/ NextKey(c) PROVE Within(k)'
  <2>1. Alone(c) /\ pc'[c] = "idle"
    BY <1>4, Returned, NextKeyMoves
  <2> QED
    BY <1>1, <1>3, <1>4, <2>1, LimitSteps
<1>5. ASSUME Fault, Uncounted(key[c], 1), NextKey(c) PROVE Within(k)'
  <2>1. Alone(c) /\ pc'[c] = "idle" /\ faults' = faults + 1
    BY <1>5, NextKeyMoves DEF Fault
  <2>2. Past(k)' \subseteq Past(k)
    BY <1>3, <2>1
  <2>3. /\ counter'[k] = counter[k] 
        /\ k = key[c] => served'[k] = served[k] + 1
        /\ k # key[c] => served'[k] = served[k]
    BY <1>1, <1>5, Counted
  <2> QED
    BY <1>1, <2>1, <2>2, <2>3, LimitSteps
<1>6. ASSUME RefuseStrictly(c) PROVE Within(k)'
  BY <1>1, <1>4, <1>6 DEF RefuseStrictly, Fault, redisVars
<1>7. CASE Check(c)
  <2>1. CASE Return(c) /\ UNCHANGED <<redisVars, faults>>
    BY <1>1, <1>4, <2>1 DEF redisVars
  <2>2. CASE /\ ~AtLimit(key[c]) /\ At(c, "incr") /\ UNCHANGED <<key, size, draft, bypass, lock>>
             /\ UNCHANGED <<redisVars, faults>>
    <3>1. Alone(c) /\ key'[c] = key[c]
      BY <2>2, Moved, Constants DEF Place
    <3>2. UNCHANGED <<counter, served, faults>>
      BY <2>2 DEF redisVars
    <3>3. CASE k = key[c]
      <4>1. counter[k] < MaxCount
        BY <1>1, <2>2, <3>3, Constants DEF AtLimit, RedisType
      <4> QED
        BY <1>1, <3>2, <4>1, LimitSteps
    <3>4. CASE k # key[c]
      <4>1. c \notin Past(k)'
        BY <3>1, <3>4 DEF Past
      <4>2. Past(k)' \subseteq Past(k)
        BY <1>2, <3>1, <4>1, PastOthers
      <4> QED
        BY <1>1, <3>2, <4>2, LimitSteps
    <3> QED
      BY <3>3, <3>4
  <2> QED
    BY <1>5, <1>6, <1>7, <2>1, <2>2 DEF Check
<1>8. CASE CheckIncr(c)
  <2>1. pc[c] = "incr"
    BY <1>8 DEF CheckIncr
  <2>2. CASE /\ Incr(key[c], 1) /\ UNCHANGED faults
             /\ \/ At(c, "expire") /\ UNCHANGED <<key, size, draft, bypass, lock>>
                \/ NextKey(c)
    <3>1. Alone(c) /\ pc'[c] \in {"expire", "idle"}
      BY <2>2, Moved, NextKeyMoves, Constants DEF Place
    <3>2. Past(k)' \subseteq Past(k) \ {c}
      BY <1>3, <3>1
    <3>3. /\ k = key[c] => counter'[k] = counter[k] + 1 /\ served'[k] = served[k] + 1
          /\ k # key[c] => counter'[k] = counter[k] /\ served'[k] = served[k]
      BY <1>1, <2>2, Counted
    <3>4. k = key[c] => c \in Past(k)
      BY <2>1 DEF Past
    <3> QED
      BY <1>1, <2>2, <3>2, <3>3, <3>4, LimitSteps
  <2> QED
    BY <1>5, <1>6, <1>8, <2>2 DEF CheckIncr
<1>9. CASE CheckExpire(c)
  BY <1>1, <1>4, <1>9 DEF CheckExpire, Fault
<1> QED
  BY <1>7, <1>8, <1>9

LEMMA DownloadLimits ==
  ASSUME TypeOK, TypeOK', PlaceInv, NEW c \in Call,
         \/ DownloadCheck(c) \/ (\E n \in Size : DownloadBandwidth(c, n)) \/ DownloadCharge(c)
         \/ ExpireBytes(c) \/ DownloadCount(c) \/ DownloadExpireCount(c),
         NEW k \in {"count", "other"}, Within(k)
  PROVE  Within(k)'
<1> USE DEF TypeOK
<1>1. /\ faults \in Nat /\ faults' \in Nat /\ 1 \in Nat /\ k \in Key /\ "bytes" \in Key
      /\ "count" \in Key /\ k # "bytes" /\ size[c] \in Nat /\ 0 \in 0 .. MaxSize
      /\ Size \subseteq 0 .. MaxSize
  BY Constants DEF Key, CallType, Size
<1>2. UNCHANGED endpoint
  BY DEF DownloadCheck, DownloadBandwidth, DownloadCharge, ExpireBytes, DownloadCount,
         DownloadExpireCount
<1>3. ASSUME counter'[k] = counter[k], served'[k] = served[k], faults' >= faults,
             Past(k)' \subseteq Past(k)
      PROVE  Within(k)'
  BY <1>1, <1>3, LimitSteps
<1>4. ASSUME NEW n \in 0 .. MaxSize, NEW p \in Place, At(c, p), UNCHANGED <<key, draft, bypass>>,
             size' = size \/ size' = [size EXCEPT ![c] = n]
      PROVE  /\ Alone(c) /\ pc'[c] = p /\ key'[c] = key[c]
             /\ (c \in Past(k)' => c \in Past(k)) => Past(k)' \subseteq Past(k)
             /\ c \notin Past(k)' => Past(k)' \subseteq Past(k) \ {c}
  BY <1>2, <1>4, Moved, PastOthers
<1>5. CASE DownloadCheck(c)
  <2>1. /\ endpoint \in {"download", "refresh"} /\ UNCHANGED <<key, size, draft, bypass, counter, served>>
        /\ At(c, IF endpoint = "download" THEN "bandwidth" ELSE "count")
        /\ (~AtLimit("count") /\ faults' = faults) \/ faults' = faults + 1
    BY <1>5 DEF DownloadCheck, redisVars, Fault
  <2>2. PICK p \in Place : At(c, p)
    BY <2>1 DEF Place
  <2>3. Alone(c) /\ key'[c] = "count" /\ ((c \in Past(k)' => c \in Past(k)) => Past(k)' \subseteq Past(k))
    BY <1>1, <1>4, <2>1, <2>2 DEF PlaceInv
  <2>4. CASE faults' = faults + 1
    <3>1. Past(k)' \subseteq Past(k) \cup {c}
      BY <1>2, <2>3 DEF Past, Alone
    <3> QED
      BY <1>1, <2>1, <2>4, <3>1, LimitSteps
  <2>5. CASE k = "count" /\ ~AtLimit("count") /\ faults' = faults
    <3>1. counter[k] < MaxCount
      BY <1>1, <2>5, Constants DEF AtLimit, RedisType
    <3> QED
      BY <1>1, <2>1, <2>5, <3>1, LimitSteps
  <2>6. CASE k = "other" /\ faults' = faults
    <3>1. c \notin Past(k)'
      BY <2>3, <2>6 DEF Past
    <3> QED
      BY <1>1, <1>3, <2>1, <2>3, <2>6, <3>1
  <2> QED
    BY <2>1, <2>4, <2>5, <2>6
<1>6. ASSUME NEW n \in Size, DownloadBandwidth(c, n) PROVE Within(k)'
  <2>1. /\ pc[c] = "bandwidth" /\ At(c, "charge") /\ size' = [size EXCEPT ![c] = n]
        /\ UNCHANGED <<key, draft, bypass, redisVars>> /\ faults' >= faults
    BY <1>1, <1>6 DEF DownloadBandwidth, Fault
  <2>2. key'[c] = key[c] /\ ((c \in Past(k)' => c \in Past(k)) => Past(k)' \subseteq Past(k))
    BY <1>1, <1>4, <2>1 DEF Place
  <2>3. c \in Past(k)' => c \in Past(k)
    BY <2>1, <2>2 DEF Past
  <2> QED
    BY <1>3, <2>1, <2>2, <2>3 DEF redisVars
<1>7. CASE DownloadCharge(c)
  <2>1. /\ endpoint = "download" /\ pc[c] = "charge" /\ UNCHANGED <<key, size, draft, bypass>>
        /\ At(c, "expireBytes") \/ At(c, "count")
        /\ Incr("bytes", size[c]) \/ Uncounted("bytes", size[c])
    BY <1>1, <1>7 DEF DownloadCharge, Fault
  <2>2. key'[c] = key[c] /\ ((c \in Past(k)' => c \in Past(k)) => Past(k)' \subseteq Past(k))
    BY <1>1, <1>4, <2>1 DEF Place
  <2>3. c \in Past(k)' => c \in Past(k)
    BY <2>1, <2>2 DEF Past
  <2>4. counter'[k] = counter[k] /\ served'[k] = served[k]
    BY <1>1, <2>1, Counted
  <2>5. faults' >= faults
    BY <1>1, <1>7 DEF DownloadCharge, Fault
  <2> QED
    BY <1>3, <2>2, <2>3, <2>4, <2>5
<1>8. CASE ExpireBytes(c)
  <2>1. /\ pc[c] = "expireBytes" /\ UNCHANGED <<key, size, draft, bypass, counter, served>>
        /\ At(c, IF endpoint = "download" THEN "count" ELSE "commit") /\ faults' >= faults
    BY <1>1, <1>8 DEF ExpireBytes, Fault
  <2>2. PICK p \in Place : At(c, p) /\ (p = "count" => endpoint = "download") /\ p \in {"count", "commit"}
    BY <2>1 DEF Place
  <2>3. /\ pc'[c] = p /\ key'[c] = key[c]
        /\ (c \in Past(k)' => c \in Past(k)) => Past(k)' \subseteq Past(k)
    BY <1>1, <1>4, <2>1, <2>2
  <2>4. c \in Past(k)' => c \in Past(k)
    BY <2>1, <2>2, <2>3 DEF Past
  <2> QED
    BY <1>3, <2>1, <2>3, <2>4
<1>9. CASE DownloadCount(c)
  <2>1. /\ pc[c] = "count"
        /\ \/ UNCHANGED <<key, size, draft, bypass>> /\ At(c, "expireCount")
           \/ Return(c)
        /\ \/ Incr("count", 1) /\ UNCHANGED faults
           \/ Uncounted("count", 1) /\ faults' = faults + 1
    BY <1>9 DEF DownloadCount, Fault
  <2>2. key[c] = "count"
    BY <2>1, WhereCalls DEF PlaceInv
  <2>3. pc'[c] \in {"expireCount", "idle"} /\ (c \notin Past(k)' => Past(k)' \subseteq Past(k) \ {c})
    <3>1. CASE Return(c)
      BY <1>2, <3>1, Returned, PastOthers
    <3>2. CASE UNCHANGED <<key, size, draft, bypass>> /\ At(c, "expireCount")
      BY <1>1, <1>4, <3>2 DEF Place
    <3> QED
      BY <2>1, <3>1, <3>2
  <2>4. Past(k)' \subseteq Past(k) \ {c}
    BY <2>3 DEF Past
  <2>5. /\ k = "count" => c \in Past(k)
        /\ k = "other" => counter'[k] = counter[k] /\ served'[k] = served[k]
        /\ k = "count" => \/ /\ counter'[k] = counter[k] + 1 /\ served'[k] = served[k] + 1
                             /\ UNCHANGED faults
                          \/ /\ counter'[k] = counter[k] /\ served'[k] = served[k] + 1
                             /\ faults' = faults + 1
    <3>1. k = "count" => c \in Past(k)
      BY <2>1, <2>2 DEF Past
    <3> QED
      BY <1>1, <2>1, <3>1, Counted
  <2> QED
    BY <1>1, <1>3, <2>1, <2>4, <2>5, LimitSteps
<1>10. CASE DownloadExpireCount(c)
  <2>1. Return(c) /\ UNCHANGED <<counter, served>> /\ faults' >= faults
    BY <1>1, <1>10 DEF DownloadExpireCount, Fault
  <2>2. Alone(c) /\ pc'[c] = "idle"
    BY <2>1, Returned
  <2>3. Past(k)' \subseteq Past(k)
    BY <1>2, <2>2, PastOthers DEF Past
  <2> QED
    BY <1>3, <2>1, <2>3
<1> QED
  BY <1>5, <1>6, <1>7, <1>8, <1>9, <1>10

LEMMA LimitsKept ==
  ASSUME TypeOK, PlaceInv, LockInv, CountInv, [Next]_vars
  PROVE  CountInv'
<1> USE DEF TypeOK
<1>1. TypeOK' /\ PlaceInv'
  BY TypeKept, CallsKept DEF CallInv
<1>2. SUFFICES ASSUME NEW k \in {"count", "other"} PROVE Within(k)'
  BY DEF CountInv, Within
<1>3. /\ faults \in Nat /\ faults' \in Nat /\ faults' >= faults /\ k \in Key /\ "bytes" \in Key
      /\ k # "bytes" /\ Within(k)
  BY <1>1, FaultsGrow, Constants DEF Key, CountInv, Within
<1>4. ASSUME counter'[k] = counter[k], served'[k] = served[k], Past(k)' \subseteq Past(k)
      PROVE  Within(k)'
  BY <1>1, <1>3, <1>4, LimitSteps
<1>5. ASSUME NEW c \in Call,
             \/ (\E n \in Size : UploadRead(c, n) \/ \E d \in Upload : ConfirmLock(c, d, n))
             \/ (\E d \in Upload : UploadInsert(c, d)) \/ ConfirmCharge(c) \/ ConfirmCommit(c)
      PROVE  Within(k)'
  <2>1. endpoint = "upload" /\ endpoint' = "upload"
    BY <1>5, WhereCalls DEF UploadRead, ConfirmLock, UploadInsert, ConfirmCharge, ConfirmCommit
  <2>2. Past(k)' = {}
    BY <1>1, <2>1, Places DEF PlaceInv, Past
  <2>3. size[c] \in Nat
    BY Constants DEF CallType
  <2>4. Incr("bytes", size[c]) \/ UNCHANGED <<counter, served>>
    BY <1>5 DEF UploadRead, ConfirmLock, UploadInsert, ConfirmCharge, ConfirmCommit, redisVars
  <2>5. counter'[k] = counter[k] /\ served'[k] = served[k]
    BY <1>3, <2>3, <2>4, Counted
  <2> QED
    BY <1>4, <2>2, <2>5
<1>6. ASSUME NEW c \in Call, CallCut(c) PROVE Within(k)'
  <2>1. Return(c) /\ UNCHANGED <<counter, served, endpoint>>
    BY <1>6 DEF CallCut
  <2>2. Alone(c) /\ pc'[c] = "idle"
    BY <2>1, Returned
  <2>3. Past(k)' \subseteq Past(k)
    BY <2>1, <2>2, PastOthers DEF Past
  <2> QED
    BY <1>4, <2>1, <2>3
<1>7. ASSUME NEW j \in Key, Lapse(j) PROVE Within(k)'
  <2>1. UNCHANGED <<endpoint, pc, key>>
    BY <1>7 DEF Lapse, callVars
  <2>2. Past(k)' = Past(k)
    BY <2>1 DEF Past
  <2>3. CASE k = j
    BY <1>1, <1>3, <1>7, <2>3, LimitSteps DEF Lapse, RedisType
  <2>4. CASE k # j
    BY <1>3, <1>4, <1>7, <2>2, <2>4 DEF Lapse, RedisType
  <2> QED
    BY <2>3, <2>4
<1>8. CASE \/ OtcAttempt \/ WindowEnds \/ OtcCleanup \/ UNCHANGED vars
           \/ \E d \in Upload, n \in Size : AdminInit(d, n)
  <2>1. UNCHANGED <<endpoint, pc, key, counter, served>>
    BY <1>8 DEF OtcAttempt, WindowEnds, OtcCleanup, AdminInit, vars, callVars, redisVars
  <2> QED
    BY <1>4, <2>1 DEF Past
<1>9. ASSUME NEW c \in Call, Proceed(c) PROVE Within(k)'
  BY <1>1, <1>3, <1>5, <1>9, RequestLimits, DownloadLimits DEF Proceed
<1>10. ASSUME NEW c \in Call, Check(c) \/ DownloadCheck(c) PROVE Within(k)'
  BY <1>1, <1>3, <1>10, RequestLimits, DownloadLimits
<1> QED
  BY <1>5, <1>6, <1>7, <1>8, <1>9, <1>10 DEF Next

-----------------------------------------------------------------------------
(* The limit on downloaded bytes. *)

\* Each failure moves the bound on bytes by one file.
LEMMA FileBounds ==
  ASSUME NEW e \in Nat, NEW f \in Nat
  PROVE  /\ Files(e) \in Nat /\ Files(f) \in Nat /\ Files(Racing) \in Nat
         /\ MaxBytes + Files(Racing + e) \in Nat /\ MaxBytes + Files(Racing + f) \in Nat
         /\ f >= e => /\ Files(e) <= Files(f)
                      /\ MaxBytes + Files(Racing + e) <= MaxBytes + Files(Racing + f)
         /\ f = e + 1 => /\ Files(f) = Files(e) + MaxSize
                         /\ MaxBytes + Files(Racing + f) = MaxBytes + Files(Racing + e) + MaxSize
         /\ MaxBytes + Files(Racing + f) = MaxBytes + Files(Racing) + Files(f)
<1>1. Racing + e \in Nat /\ Racing + f \in Nat /\ Racing \in Nat
  BY Constants
<1>2. f >= e => Racing + e <= Racing + f
  BY <1>1
<1>3. f = e + 1 => Racing + f = (Racing + e) + 1
  BY <1>1
<1>4. /\ Files(e) \in Nat /\ Files(f) \in Nat /\ Files(Racing) \in Nat
      /\ Files(Racing + e) \in Nat /\ Files(Racing + f) \in Nat
  BY <1>1, FileSum
<1>5. f >= e => Files(e) <= Files(f) /\ Files(Racing + e) <= Files(Racing + f)
  BY <1>1, <1>2, FileSum
<1>6. f = e + 1 => /\ Files(f) = Files(e) + MaxSize
                   /\ Files(Racing + f) = Files(Racing + e) + MaxSize
  BY <1>1, <1>3, FileSum
<1>7. Files(Racing + f) = Files(Racing) + Files(f)
  BY <1>1, FileSum
<1> QED
  BY <1>4, <1>5, <1>6, <1>7, Constants

\* What a step may do to it: nothing or the end of a call, the end of the window, let a download
\* in that fits, let one in because the count could not be read, or charge one, in vain or not.
LEMMA ByteSteps ==
  ASSUME RedisType, RedisType', CallType, CallType', faults \in Nat, faults' \in Nat, ByteInv,
         UNCHANGED endpoint,
         \/ /\ Due' \subseteq Due /\ (\A b \in Due' : size'[b] = size[b])
            /\ Due' # Due => \E c \in Due : Due' = Due \ {c}
            /\ served'["bytes"] = served["bytes"] /\ counter'["bytes"] = counter["bytes"]
            /\ faults' >= faults
         \/ /\ Due' = Due /\ (\A b \in Due' : size'[b] = size[b])
            /\ served'["bytes"] = 0 /\ faults' = faults
         \/ \E c \in Call \ Due :
              /\ Due' = Due \cup {c} /\ (\A b \in Due : size'[b] = size[b]) /\ size'[c] <= MaxBytes
              /\ served'["bytes"] = served["bytes"] /\ counter'["bytes"] = counter["bytes"]
              /\ \/ counter["bytes"] + size'[c] <= MaxBytes /\ faults' = faults
                 \/ faults' = faults + 1
         \/ \E c \in Due :
              /\ Due' = Due \ {c} /\ (\A b \in Due' : size'[b] = size[b])
              /\ served'["bytes"] = served["bytes"] + size[c]
              /\ \/ counter'["bytes"] = counter["bytes"] + size[c] /\ faults' = faults
                 \/ counter'["bytes"] = counter["bytes"] /\ faults' = faults + 1
  PROVE  ByteInv'
<1> DEFINE s == served["bytes"]
           t == served'["bytes"]
           m == counter["bytes"]
           n == counter'["bytes"]
           P == Due
           Q == Due'
           most == MaxBytes + Files(Racing + faults)
           most2 == MaxBytes + Files(Racing + faults')
<1>1. s \in Nat /\ t \in Nat /\ m \in Nat /\ n \in Nat
  BY DEF RedisType, Key
<1>2. P \subseteq Call /\ Q \subseteq Call
  BY DEF Due
<1>3. /\ Cardinality(P) \in Nat /\ Cardinality(Q) \in Nat /\ Cardinality(Q) <= Racing + 1
      /\ \A c \in P : Cardinality(P) >= 1 /\ Cardinality(P \ {c}) = Cardinality(P) - 1
      /\ \A c \in Call \ P : Cardinality(P \cup {c}) = Cardinality(P) + 1
  BY <1>2, CallSets
<1>4. ASSUME NEW c \in Call
      PROVE  size[c] \in Nat /\ size[c] <= MaxSize /\ size'[c] \in Nat /\ size'[c] <= MaxSize
  BY Constants DEF CallType
<1>5. /\ s <= m + Files(faults)
      /\ \A c \in P : size[c] <= MaxBytes
      /\ \/ s + Files(Cardinality(P)) <= most
         \/ \E c \in P : s + size[c] + Files(Cardinality(P) - 1) <= most
  BY DEF ByteInv
<1>6. /\ Files(faults) \in Nat /\ Files(faults') \in Nat /\ most \in Nat /\ most2 \in Nat
      /\ faults' >= faults => Files(faults) <= Files(faults') /\ most <= most2
      /\ faults' = faults + 1 => Files(faults') = Files(faults) + MaxSize /\ most2 = most + MaxSize
      /\ most2 = MaxBytes + Files(Racing) + Files(faults')
      /\ Files(Racing) \in Nat
  BY FileBounds
<1>7. \A i \in Nat : i >= 1 => Files(i) = Files(i - 1) + MaxSize /\ Files(i - 1) \in Nat
  <2>1. ASSUME NEW i \in Nat, i >= 1 PROVE Files(i) = Files(i - 1) + MaxSize /\ Files(i - 1) \in Nat
    <3>1. i - 1 \in Nat /\ i = (i - 1) + 1
      BY <2>1
    <3> QED
      BY <3>1, FileSum
  <2> QED
    BY <2>1
<1>8. Files(0) = 0 /\ Files(Cardinality(P)) \in Nat /\ Files(Cardinality(Q)) \in Nat
  BY <1>3, FileSum
<1> SUFFICES /\ t <= n + Files(faults')
             /\ \A c \in Q : size'[c] <= MaxBytes
             /\ \/ t + Files(Cardinality(Q)) <= most2
                \/ \E c \in Q : t + size'[c] + Files(Cardinality(Q) - 1) <= most2
  BY DEF ByteInv, Files, Racing
<1> HIDE DEF s, t, m, n, P, Q, most, most2
<1>9. CASE /\ Q \subseteq P /\ (\A b \in Q : size'[b] = size[b])
           /\ Q # P => \E c \in P : Q = P \ {c}
           /\ t = s /\ n = m /\ faults' >= faults
  <2>1. CASE Q = P
    <3>1. t <= n + Files(faults') /\ most <= most2 /\ Cardinality(Q) = Cardinality(P)
      BY <1>1, <1>5, <1>6, <1>9, <2>1
    <3>2. \A c \in Q : size'[c] <= MaxBytes
      BY <1>5, <1>9
    <3>3. CASE s + Files(Cardinality(P)) <= most
      BY <1>1, <1>6, <1>8, <1>9, <3>1, <3>2, <3>3
    <3>4. ASSUME NEW c \in P, s + size[c] + Files(Cardinality(P) - 1) <= most
          PROVE  \E b \in Q : t + size'[b] + Files(Cardinality(Q) - 1) <= most2
      <4>1. c \in Q /\ size'[c] = size[c] /\ size[c] \in Nat /\ Files(Cardinality(P) - 1) \in Nat
        BY <1>2, <1>3, <1>4, <1>7, <1>9, <2>1
      <4>2. t + size'[c] + Files(Cardinality(Q) - 1) <= most2
        BY <1>1, <1>6, <1>9, <3>1, <3>4, <4>1
      <4> QED
        BY <4>1, <4>2
    <3> QED
      BY <1>5, <3>1, <3>2, <3>3, <3>4
  <2>2. CASE Q # P
    <3>1. PICK c \in P : Q = P \ {c}
      BY <1>9, <2>2
    <3>2. Cardinality(Q) = Cardinality(P) - 1 /\ Cardinality(P) >= 1
      BY <1>3, <3>1
    <3>3. Files(Cardinality(P)) = Files(Cardinality(Q)) + MaxSize
      BY <1>3, <1>7, <3>2
    <3>4. t + Files(Cardinality(Q)) <= most2
      <4>1. \A b \in P : size[b] \in Nat
        BY <1>2, <1>4
      <4> QED
        BY <1>1, <1>5, <1>6, <1>8, <1>9, <3>2, <3>3, <4>1, Constants
    <3> QED
      BY <1>1, <1>5, <1>6, <1>9, <3>4
  <2> QED
    BY <2>1, <2>2
<1>10. CASE Q = P /\ (\A b \in Q : size'[b] = size[b]) /\ t = 0 /\ faults' = faults
  <2>1. t <= n + Files(faults')
    BY <1>1, <1>6, <1>10
  <2>2. CASE Q = {}
    <3>1. Cardinality(Q) = 0
      BY <2>2, FS_EmptySet
    <3> QED
      BY <1>6, <1>8, <1>10, <2>1, <2>2, <3>1
  <2>3. CASE Q # {}
    <3>1. PICK c \in Q : TRUE
      BY <2>3
    <3>2. size'[c] <= MaxBytes /\ size'[c] \in Nat
      BY <1>2, <1>4, <1>5, <1>10
    <3>3. Cardinality(Q) - 1 \in Nat /\ Cardinality(Q) - 1 <= Racing
      <4>1. Cardinality(Q) = Cardinality(P) /\ Cardinality(P) >= 1
        BY <1>3, <1>10, <3>1
      <4> QED
        BY <1>3, <4>1, Constants
    <3>4. Files(Cardinality(Q) - 1) <= Files(Racing) /\ Files(Cardinality(Q) - 1) \in Nat
      BY <3>3, FileSum, Constants
    <3>5. t + size'[c] + Files(Cardinality(Q) - 1) <= most2
      BY <1>6, <1>10, <3>2, <3>4, Constants
    <3> QED
      BY <1>5, <1>10, <2>1, <3>5
  <2> QED
    BY <2>2, <2>3
<1>11. ASSUME NEW c \in Call \ P, Q = P \cup {c}, \A b \in P : size'[b] = size[b],
              size'[c] <= MaxBytes, t = s, n = m
       PROVE  /\ Cardinality(Q) = Cardinality(P) + 1 /\ Cardinality(Q) - 1 = Cardinality(P)
              /\ \A b \in Q : size'[b] <= MaxBytes
              /\ size'[c] \in Nat /\ size'[c] <= MaxSize
              /\ Files(Cardinality(Q)) = Files(Cardinality(P)) + MaxSize
              /\ Files(Cardinality(P)) <= Files(Racing)
  <2>1. Cardinality(Q) = Cardinality(P) + 1 /\ Cardinality(Q) - 1 = Cardinality(P)
    BY <1>3, <1>11
  <2>2. Cardinality(P) <= Racing
    BY <1>3, <2>1, Constants
  <2> QED
    BY <1>2, <1>3, <1>4, <1>5, <1>11, <2>1, <2>2, FileSum, Constants
<1>12. ASSUME NEW c \in Call \ P, Q = P \cup {c}, \A b \in P : size'[b] = size[b],
              size'[c] <= MaxBytes, t = s, n = m, m + size'[c] <= MaxBytes, faults' = faults
       PROVE  /\ t <= n + Files(faults')
              /\ \A b \in Q : size'[b] <= MaxBytes
              /\ \E b \in Q : t + size'[b] + Files(Cardinality(Q) - 1) <= most2
  <2>1. /\ Cardinality(Q) = Cardinality(P) + 1 /\ Cardinality(Q) - 1 = Cardinality(P)
        /\ \A b \in Q : size'[b] <= MaxBytes
        /\ size'[c] \in Nat /\ size'[c] <= MaxSize
        /\ Files(Cardinality(Q)) = Files(Cardinality(P)) + MaxSize
        /\ Files(Cardinality(P)) <= Files(Racing)
    BY <1>11, <1>12
  <2>2. t + size'[c] + Files(Cardinality(P)) <= most2
    BY <1>1, <1>5, <1>6, <1>8, <1>12, <2>1, Constants
  <2>3. t + size'[c] + Files(Cardinality(Q) - 1) <= most2
    BY <2>1, <2>2
  <2> QED
    BY <1>5, <1>12, <2>1, <2>3
<1>13. ASSUME NEW c \in Call \ P, Q = P \cup {c}, \A b \in P : size'[b] = size[b],
              size'[c] <= MaxBytes, t = s, n = m, faults' = faults + 1
       PROVE  /\ t <= n + Files(faults')
              /\ \A b \in Q : size'[b] <= MaxBytes
              /\ \/ t + Files(Cardinality(Q)) <= most2
                 \/ \E b \in Q : t + size'[b] + Files(Cardinality(Q) - 1) <= most2
  <2>1. /\ Cardinality(Q) = Cardinality(P) + 1 /\ Cardinality(Q) - 1 = Cardinality(P)
        /\ \A b \in Q : size'[b] <= MaxBytes
        /\ size'[c] \in Nat /\ size'[c] <= MaxSize
        /\ Files(Cardinality(Q)) = Files(Cardinality(P)) + MaxSize
        /\ Files(Cardinality(P)) <= Files(Racing)
    BY <1>11, <1>13
  <2>2. t <= n + Files(faults')
    BY <1>1, <1>5, <1>6, <1>13, Constants
  <2>3. CASE s + Files(Cardinality(P)) <= most
    BY <1>1, <1>6, <1>8, <1>13, <2>1, <2>2, <2>3, Constants
  <2>4. CASE \E b \in P : s + size[b] + Files(Cardinality(P) - 1) <= most
    <3>1. PICK b \in P : s + size[b] + Files(Cardinality(P) - 1) <= most
      BY <2>4
    <3>2. Files(Cardinality(P)) = Files(Cardinality(P) - 1) + MaxSize /\ Files(Cardinality(P) - 1) \in Nat
      BY <1>3, <1>7, <3>1
    <3>3. size'[b] = size[b] /\ size[b] \in Nat
      BY <1>2, <1>4, <1>13
    <3>4. t + size'[b] + Files(Cardinality(P)) <= most2
      BY <1>1, <1>6, <1>13, <3>1, <3>2, <3>3, Constants
    <3>5. t + size'[b] + Files(Cardinality(Q) - 1) <= most2
      BY <2>1, <3>4
    <3> QED
      BY <1>13, <2>1, <2>2, <3>5
  <2> QED
    BY <1>5, <2>3, <2>4
<1>14. ASSUME NEW c \in P, Q = P \ {c}, \A b \in Q : size'[b] = size[b], t = s + size[c],
              \/ n = m + size[c] /\ faults' = faults
              \/ n = m /\ faults' = faults + 1
       PROVE  /\ t <= n + Files(faults')
              /\ \A b \in Q : size'[b] <= MaxBytes
              /\ \/ t + Files(Cardinality(Q)) <= most2
                 \/ \E b \in Q : t + size'[b] + Files(Cardinality(Q) - 1) <= most2
  <2>1. size[c] \in Nat /\ size[c] <= MaxSize
    BY <1>2, <1>4
  <2>2. t <= n + Files(faults')
    BY <1>1, <1>5, <1>6, <1>14, <2>1, Constants
  <2>3. \A b \in Q : size'[b] <= MaxBytes
    BY <1>5, <1>14
  <2>4. most <= most2
    BY <1>6, <1>14, Constants
  <2>5. Cardinality(Q) = Cardinality(P) - 1 /\ Cardinality(P) >= 1
    BY <1>3, <1>14
  <2>6. Files(Cardinality(P)) = Files(Cardinality(Q)) + MaxSize
    BY <1>3, <1>7, <2>5
  <2>7. CASE s + Files(Cardinality(P)) <= most
    BY <1>1, <1>6, <1>8, <1>14, <2>1, <2>2, <2>3, <2>4, <2>6, <2>7, Constants
  <2>8. ASSUME NEW b \in P, s + size[b] + Files(Cardinality(P) - 1) <= most
        PROVE  \/ t + Files(Cardinality(Q)) <= most2
               \/ \E x \in Q : t + size'[x] + Files(Cardinality(Q) - 1) <= most2
    <3>1. CASE b = c
      BY <1>1, <1>6, <1>8, <1>14, <2>1, <2>4, <2>5, <2>8, <3>1
    <3>2. CASE b # c
      <4>1. b \in Q /\ size'[b] = size[b] /\ size[b] \in Nat
        BY <1>2, <1>4, <1>14, <3>2
      <4>2. Cardinality(Q) >= 1
        BY <1>2, <4>1, CallSets
      <4>3. /\ Files(Cardinality(P) - 1) = Files(Cardinality(Q) - 1) + MaxSize
            /\ Files(Cardinality(Q) - 1) \in Nat
        BY <1>3, <1>7, <2>5, <4>2
      <4>4. t + size'[b] + Files(Cardinality(Q) - 1) <= most2
        BY <1>1, <1>6, <1>14, <2>1, <2>4, <2>8, <4>1, <4>3, Constants
      <4> QED
        BY <4>1, <4>4
    <3> QED
      BY <3>1, <3>2
  <2> QED
    BY <1>5, <2>2, <2>3, <2>7, <2>8
<1> QED
  BY <1>9, <1>10, <1>12, <1>13, <1>14 DEF s, t, m, n, P, Q

LEMMA DueOthers ==
  ASSUME NEW c \in Call, Alone(c), UNCHANGED endpoint, endpoint = "download"
  PROVE  /\ pc'[c] = "charge" => Due' = Due \cup {c}
         /\ pc'[c] # "charge" => Due' = Due \ {c}
         /\ \A b \in Call \ {c} : size'[b] = size[b]
         /\ c \in Due <=> pc[c] = "charge"
         /\ Due \subseteq Call /\ Due' \subseteq Call
BY DEF Alone, Due

LEMMA BytesKept ==
  ASSUME TypeOK, PlaceInv, LockInv, endpoint = "download", ByteInv, [Next]_vars
  PROVE  ByteInv'
<1> USE DEF TypeOK
<1>1. TypeOK'
  BY TypeKept
<1>2. /\ faults \in Nat /\ faults' \in Nat /\ faults' >= faults
      /\ "bytes" \in Key /\ "count" \in Key /\ "count" # "bytes" /\ 1 \in Nat
      /\ 0 \in 0 .. MaxSize /\ Size \subseteq 0 .. MaxSize
  BY <1>1, FaultsGrow, Constants DEF Key, Size
<1>3. ASSUME UNCHANGED endpoint, Due' = Due, \A b \in Due : size'[b] = size[b],
             served'["bytes"] = served["bytes"], counter'["bytes"] = counter["bytes"]
      PROVE  ByteInv'
  BY <1>1, <1>2, <1>3, ByteSteps
<1>4. ASSUME NEW c \in Call, Alone(c), UNCHANGED endpoint, pc[c] # "charge", pc'[c] # "charge",
             served'["bytes"] = served["bytes"], counter'["bytes"] = counter["bytes"]
      PROVE  ByteInv'
  <2>1. Due' = Due /\ \A b \in Due : size'[b] = size[b]
    BY <1>4, DueOthers
  <2> QED
    BY <1>3, <1>4, <2>1
<1>5. ASSUME NEW c \in Call, DownloadCheck(c) PROVE ByteInv'
  <2>1. /\ pc[c] = "idle" /\ UNCHANGED <<endpoint, counter, served, key, size, draft, bypass>>
        /\ At(c, "bandwidth")
    BY <1>5 DEF DownloadCheck, redisVars
  <2>2. Alone(c) /\ pc'[c] = "bandwidth"
    BY <1>2, <2>1, Moved DEF Place
  <2> QED
    BY <1>4, <2>1, <2>2
<1>6. ASSUME NEW c \in Call, NEW n \in Size, DownloadBandwidth(c, n) PROVE ByteInv'
  <2>1. /\ pc[c] = "bandwidth" /\ At(c, "charge") /\ size' = [size EXCEPT ![c] = n]
        /\ UNCHANGED <<endpoint, key, draft, bypass, counter, served>>
        /\ \/ counter["bytes"] + n <= MaxBytes /\ UNCHANGED faults
           \/ n <= MaxBytes /\ faults' = faults + 1
    BY <1>6 DEF DownloadBandwidth, Fault, redisVars
  <2>2. Alone(c) /\ pc'[c] = "charge" /\ size'[c] = n /\ n \in Nat
    <3>1. size'[c] = n /\ n \in 0 .. MaxSize /\ n \in Nat
      BY <1>2, <2>1, Constants DEF CallType
    <3> QED
      BY <2>1, <3>1, Moved DEF Place
  <2>3. n <= MaxBytes
    BY <1>2, <2>1, <2>2, Constants DEF RedisType
  <2>4. Due' = Due \cup {c} /\ c \in Call \ Due /\ \A b \in Due : size'[b] = size[b]
    BY <2>1, <2>2, DueOthers
  <2> QED
    BY <1>1, <1>2, <2>1, <2>2, <2>3, <2>4, ByteSteps
<1>7. ASSUME NEW c \in Call, DownloadCharge(c) PROVE ByteInv'
  <2>1. /\ pc[c] = "charge" /\ (At(c, "expireBytes") \/ At(c, "count"))
        /\ UNCHANGED <<endpoint, key, size, draft, bypass>>
        /\ \/ Incr("bytes", size[c]) /\ UNCHANGED faults
           \/ Uncounted("bytes", size[c]) /\ faults' = faults + 1
    BY <1>7 DEF DownloadCharge, Fault
  <2>2. Alone(c) /\ pc'[c] # "charge" /\ size[c] \in Nat
    BY <1>2, <2>1, Moved, Constants DEF Place, CallType
  <2>3. Due' = Due \ {c} /\ c \in Due /\ \A b \in Due' : size'[b] = size[b]
    BY <2>1, <2>2, DueOthers
  <2>4. /\ served'["bytes"] = served["bytes"] + size[c]
        /\ \/ counter'["bytes"] = counter["bytes"] + size[c] /\ faults' = faults
           \/ counter'["bytes"] = counter["bytes"] /\ faults' = faults + 1
    BY <1>2, <2>1, <2>2, Counted
  <2> QED
    BY <1>1, <1>2, <2>1, <2>3, <2>4, ByteSteps
<1>8. ASSUME NEW c \in Call, ExpireBytes(c) PROVE ByteInv'
  <2>1. /\ pc[c] = "expireBytes" /\ At(c, "count")
        /\ UNCHANGED <<endpoint, counter, served, key, size, draft, bypass>>
    BY <1>8 DEF ExpireBytes
  <2>2. Alone(c) /\ pc'[c] = "count"
    BY <1>2, <2>1, Moved DEF Place
  <2> QED
    BY <1>4, <2>1, <2>2
<1>9. ASSUME NEW c \in Call, DownloadCount(c) PROVE ByteInv'
  <2>1. /\ pc[c] = "count" /\ At(c, "expireCount") /\ UNCHANGED <<endpoint, key, size, draft, bypass>>
        /\ Incr("count", 1) \/ Uncounted("count", 1)
    BY <1>9 DEF DownloadCount, redisVars
  <2>2. Alone(c) /\ pc'[c] = "expireCount"
    BY <1>2, <2>1, Moved DEF Place
  <2>3. counter'["bytes"] = counter["bytes"] /\ served'["bytes"] = served["bytes"]
    BY <1>2, <2>1, Counted
  <2> QED
    BY <1>4, <2>1, <2>2, <2>3
<1>10. ASSUME NEW c \in Call, DownloadExpireCount(c) PROVE ByteInv'
  <2>1. pc[c] = "expireCount" /\ Return(c) /\ UNCHANGED <<endpoint, counter, served>>
    BY <1>10 DEF DownloadExpireCount
  <2> QED
    BY <1>4, <2>1, Returned
<1>11. ASSUME NEW c \in Call, CallCut(c) PROVE ByteInv'
  <2>1. Return(c) /\ UNCHANGED <<endpoint, counter, served>>
    BY <1>11 DEF CallCut
  <2>2. Alone(c) /\ pc'[c] = "idle"
    BY <2>1, Returned
  <2>3. Due' = Due \ {c} /\ \A b \in Due' : size'[b] = size[b]
    BY <2>1, <2>2, DueOthers
  <2>4. Due' # Due => \E b \in Due : Due' = Due \ {b}
    BY <2>3
  <2> QED
    BY <1>1, <1>2, <2>1, <2>3, <2>4, ByteSteps
<1>12. ASSUME NEW k \in Key, Lapse(k) PROVE ByteInv'
  <2>1. /\ UNCHANGED <<endpoint, pc, size, faults>>
        /\ counter' = [counter EXCEPT ![k] = 0] /\ served' = [served EXCEPT ![k] = 0]
    BY <1>12 DEF Lapse, callVars
  <2>2. Due' = Due /\ \A b \in Due : size'[b] = size[b]
    BY <2>1 DEF Due
  <2>3. CASE k = "bytes"
    <3>1. served'["bytes"] = 0
      BY <2>1, <2>3 DEF RedisType
    <3> QED
      BY <1>1, <1>2, <2>1, <2>2, <3>1, ByteSteps
  <2>4. CASE k # "bytes"
    BY <1>2, <1>3, <2>1, <2>2, <2>4 DEF RedisType
  <2> QED
    BY <2>3, <2>4
<1>13. CASE UNCHANGED vars
  <2>1. UNCHANGED <<endpoint, pc, size, counter, served>>
    BY <1>13 DEF vars, callVars, redisVars
  <2> QED
    BY <1>3, <2>1 DEF Due
<1>14. ASSUME NEW c \in Call, Proceed(c) PROVE ByteInv'
  <2>1. /\ ~CheckIncr(c) /\ ~CheckExpire(c) /\ ~(\E d \in Upload : UploadInsert(c, d))
        /\ ~ConfirmCharge(c) /\ ~ConfirmCommit(c)
    BY WhereCalls DEF CheckIncr, CheckExpire, UploadInsert, ConfirmCharge, ConfirmCommit
  <2> QED
    BY <1>6, <1>7, <1>8, <1>9, <1>10, <1>14, <2>1 DEF Proceed
<1>15. /\ \A c \in Call : /\ ~Check(c)
                          /\ \A n \in Size : ~UploadRead(c, n) /\ \A d \in Upload : ~ConfirmLock(c, d, n)
       /\ \A d \in Upload, n \in Size : ~AdminInit(d, n)
       /\ ~OtcAttempt /\ ~WindowEnds /\ ~OtcCleanup
  BY DEF Check, UploadRead, ConfirmLock, AdminInit, OtcAttempt, WindowEnds, OtcCleanup
<1> QED
  BY <1>5, <1>11, <1>12, <1>13, <1>14, <1>15 DEF Next

-----------------------------------------------------------------------------
(* The byte quota of uploads. *)

LEMMA QuotaSets ==
  ASSUME TypeOK
  PROVE  /\ Uncharged \in SUBSET (Upload \X Size) /\ Cardinality(Uncharged) \in Nat
         /\ ComingBytes \in SUBSET (Call \X Size) /\ Cardinality(ComingBytes) \in Nat
<1>1. Uncharged \in SUBSET (Upload \X Size) /\ ComingBytes \in SUBSET (Call \X Size)
  BY DEF Uncharged, ComingBytes
<1> QED
  BY <1>1, ByteSets, Constants

LEMMA ChargedType ==
  ASSUME CallType, RowType, NEW d \in Upload
  PROVE  Charged(d) \in Nat
BY Constants DEF Charged, CallType, RowType

\* Two sets of bytes that differ only in the bytes of x.
LEMMA Swap ==
  ASSUME NEW S, IsFiniteSet(S), NEW T \in SUBSET (S \X Size), NEW U \in SUBSET (S \X Size), NEW x \in S,
         NEW lo \in Nat, NEW hi \in Nat, lo <= hi, hi <= MaxSize,
         NEW lo2 \in Nat, NEW hi2 \in Nat, lo2 <= hi2, hi2 <= MaxSize,
         \A i \in Size : <<x, i>> \in T <=> lo < i /\ i <= hi,
         \A i \in Size : <<x, i>> \in U <=> lo2 < i /\ i <= hi2,
         {t \in U : t[1] # x} = {t \in T : t[1] # x}
  PROVE  /\ Cardinality(T) \in Nat /\ Cardinality(U) \in Nat
         /\ Cardinality(U) + (hi - lo) = Cardinality(T) + (hi2 - lo2)
<1> DEFINE rest == Cardinality({t \in T : t[1] # x})
<1>1. rest \in Nat /\ Cardinality(T) = rest + (hi - lo)
  BY BytesOf
<1>2. Cardinality(U) = Cardinality({t \in U : t[1] # x}) + (hi2 - lo2)
  BY BytesOf
<1>3. Cardinality(U) = rest + (hi2 - lo2)
  BY <1>2
<1> QED
  BY <1>1, <1>3, ByteSets

\* The bytes that call c adds to those about to be inserted.
Adds(c) == IF pc[c] = "insert" THEN size[c] ELSE 0

\* A step of c alone leaves those of the other calls.
LEMMA ComingStep ==
  ASSUME CallType, NEW c \in Call, Alone(c)
  PROVE  /\ Adds(c) \in Nat /\ Adds(c)' \in Nat
         /\ Cardinality(ComingBytes) \in Nat /\ Cardinality(ComingBytes') \in Nat
         /\ Cardinality(ComingBytes') + Adds(c) = Cardinality(ComingBytes) + Adds(c)'
<1> DEFINE T == ComingBytes
           U == ComingBytes'
           a == Adds(c)
           b == Adds(c)'
<1>1. /\ a \in Nat /\ 0 <= a /\ a <= MaxSize /\ T \in SUBSET (Call \X Size)
      /\ \A i \in Size : <<c, i>> \in T <=> 0 < i /\ i <= a
  BY Constants DEF Adds, ComingBytes, CallType, Size
<1>2. pc' \in [Call -> Place] /\ size' \in [Call -> 0 .. MaxSize]
  BY DEF Alone, CallType
<1>3. /\ b \in Nat /\ 0 <= b /\ b <= MaxSize /\ U \in SUBSET (Call \X Size)
      /\ \A i \in Size : <<c, i>> \in U <=> 0 < i /\ i <= b
  BY <1>2, Constants DEF Adds, ComingBytes, Size
<1>4. {t \in U : t[1] # c} = {t \in T : t[1] # c}
  BY DEF ComingBytes, Alone
<1>5. /\ Cardinality(T) \in Nat /\ Cardinality(U) \in Nat
      /\ Cardinality(U) + (a - 0) = Cardinality(T) + (b - 0)
  <2> HIDE DEF T, U, a, b
  <2> QED
    BY <1>1, <1>3, <1>4, Swap, Constants
<1>6. Cardinality(U) + a = Cardinality(T) + b
  <2> HIDE DEF T, U, a, b
  <2> QED
    BY <1>1, <1>3, <1>5
<1> QED
  BY <1>1, <1>3, <1>5, <1>6

LEMMA ComingOf ==
  ASSUME CallType, NEW c \in Call
  PROVE  /\ Cardinality({t \in ComingBytes : t[1] # c}) \in Nat
         /\ Cardinality(ComingBytes) = Cardinality({t \in ComingBytes : t[1] # c}) + Adds(c)
<1> DEFINE T == ComingBytes
           a == Adds(c)
<1>1. /\ a \in Nat /\ 0 <= a /\ a <= MaxSize /\ T \in SUBSET (Call \X Size)
      /\ \A i \in Size : <<c, i>> \in T <=> 0 < i /\ i <= a
  BY Constants DEF Adds, ComingBytes, CallType, Size
<1>2. /\ Cardinality({t \in T : t[1] # c}) \in Nat
      /\ Cardinality(T) = Cardinality({t \in T : t[1] # c}) + (a - 0)
  <2> HIDE DEF T, a
  <2>1. 0 \in Nat /\ IsFiniteSet(Call)
    BY Constants
  <2> QED
    BY <1>1, <2>1, BytesOf
<1> QED
  BY <1>1, <1>2

\* The bytes of upload d that are still to be charged.
Owed(d) ==
  IF status[d] = "DRAFT" /\ Charged(d) <= declared[d] THEN declared[d] - Charged(d) ELSE 0

\* A step that is about upload d alone leaves those of the others.
LEMMA UnchargedStep ==
  ASSUME CallType, RowType, CallType', RowType', NEW d \in Upload,
         \A e \in Upload \ {d} : /\ status'[e] = status[e] /\ declared'[e] = declared[e]
                                 /\ Charged(e)' = Charged(e)
  PROVE  /\ Owed(d) \in Nat /\ Owed(d)' \in Nat
         /\ Cardinality(Uncharged) \in Nat /\ Cardinality(Uncharged') \in Nat
         /\ Cardinality(Uncharged') + Owed(d) = Cardinality(Uncharged) + Owed(d)'
<1> DEFINE T == Uncharged
           U == Uncharged'
           hi == declared[d]
           hi2 == declared'[d]
           ch == Charged(d)
           ch2 == Charged(d)'
           a == Owed(d)
           b == Owed(d)'
<1>1. /\ hi \in Nat /\ hi <= MaxSize /\ hi2 \in Nat /\ hi2 <= MaxSize
  BY Constants DEF RowType
<1>2. ch \in Nat /\ ch2 \in Nat
  BY Constants DEF Charged, CallType, RowType
<1>3. /\ T \in SUBSET (Upload \X Size) /\ U \in SUBSET (Upload \X Size)
      /\ \A i \in Size : <<d, i>> \in T <=> status[d] = "DRAFT" /\ ch < i /\ i <= hi
      /\ \A i \in Size : <<d, i>> \in U <=> status'[d] = "DRAFT" /\ ch2 < i /\ i <= hi2
  <2> HIDE DEF ch, ch2, hi, hi2
  <2> QED
    BY DEF Uncharged, ch, ch2, hi, hi2
<1>4. /\ a = IF status[d] = "DRAFT" /\ ch <= hi THEN hi - ch ELSE 0
      /\ b = IF status'[d] = "DRAFT" /\ ch2 <= hi2 THEN hi2 - ch2 ELSE 0
  BY DEF Owed
<1>5. {t \in U : t[1] # d} = {t \in T : t[1] # d}
  BY DEF Uncharged
<1> HIDE DEF T, U, hi, hi2, ch, ch2, a, b
<1> DEFINE lo == hi - a
           lo2 == hi2 - b
<1>6. /\ a \in Nat /\ b \in Nat
      /\ lo \in Nat /\ lo <= hi /\ hi - lo = a
      /\ lo2 \in Nat /\ lo2 <= hi2 /\ hi2 - lo2 = b
  BY <1>1, <1>2, <1>4
<1>7. \A i \in Size : i \in Nat /\ i >= 1
  BY Constants DEF Size
<1>8. /\ \A i \in Size : <<d, i>> \in T <=> lo < i /\ i <= hi
      /\ \A i \in Size : <<d, i>> \in U <=> lo2 < i /\ i <= hi2
  BY <1>1, <1>2, <1>3, <1>4, <1>7
<1>9. /\ Cardinality(T) \in Nat /\ Cardinality(U) \in Nat
      /\ Cardinality(U) + (hi - lo) = Cardinality(T) + (hi2 - lo2)
  <2> HIDE DEF lo, lo2
  <2>1. IsFiniteSet(Upload) /\ T \in SUBSET (Upload \X Size) /\ U \in SUBSET (Upload \X Size)
    BY <1>3, Constants
  <2>2. /\ Cardinality({t \in T : t[1] # d}) \in Nat
        /\ Cardinality(T) = Cardinality({t \in T : t[1] # d}) + (hi - lo)
    <3>1. \A i \in Size : <<d, i>> \in T <=> lo < i /\ i <= hi
      BY <1>8
    <3> QED
      BY <1>1, <1>6, <2>1, <3>1, BytesOf
  <2>3. Cardinality(U) = Cardinality({t \in U : t[1] # d}) + (hi2 - lo2)
    <3>1. \A i \in Size : <<d, i>> \in U <=> lo2 < i /\ i <= hi2
      BY <1>8
    <3> QED
      BY <1>1, <1>6, <2>1, <3>1, BytesOf
  <2> DEFINE rest == Cardinality({t \in T : t[1] # d})
  <2>4. Cardinality(U) = rest + (hi2 - lo2) /\ rest \in Nat /\ Cardinality(T) = rest + (hi - lo)
    BY <1>5, <2>2, <2>3
  <2> HIDE DEF rest
  <2> QED
    BY <1>6, <2>4
<1>10. Cardinality(U) + a = Cardinality(T) + b
  <2> HIDE DEF lo, lo2
  <2> QED
    BY <1>6, <1>9
<1> QED
  BY <1>6, <1>9, <1>10 DEF T, U, a, b

\* What is open when an upload is let in covers what has still to be charged.
LEMMA OpenCovers ==
  ASSUME TypeOK, NEW c \in Call
  PROVE  Cardinality(Uncharged) + Cardinality({t \in ComingBytes : t[1] # c}) <= OtherOpen(c)
<1>1. OpenBytes \in SUBSET (Upload \X Size)
  BY DEF OpenBytes
<1>2. Uncharged \subseteq OpenBytes
  BY DEF Uncharged, OpenBytes
<1>3. IsFiniteSet(OpenBytes) /\ Cardinality(OpenBytes) \in Nat
  BY <1>1, ByteSets, Constants
<1>4. Cardinality(Uncharged) <= Cardinality(OpenBytes)
  BY <1>2, <1>3, FS_Subset
<1> QED
  BY <1>3, <1>4, QuotaSets, ComingOf DEF OtherOpen, TypeOK

\* A confirmation holds the row of its draft and no other; the other calls none of c's.
LEMMA Holders ==
  ASSUME CallInv, NEW c \in Call
  PROVE  /\ \A e \in Upload : lock[e] = c => draft[c] = e /\ status[e] = "DRAFT" /\ Confirming(c)
         /\ Confirming(c) => draft[c] \in Upload /\ lock[draft[c]] = c
BY Constants DEF CallInv, RowType, LockInv

\* What the confirmation of another call has charged stays.
LEMMA ChargedOthers ==
  ASSUME CallInv, NEW c \in Call, Alone(c), NEW e \in Upload, lock[e] # c,
         lock'[e] = lock[e]
  PROVE  Charged(e)' = Charged(e)
<1>1. CASE lock[e] = NoCall
  BY <1>1 DEF Charged
<1>2. CASE lock[e] # NoCall
  <2>1. lock[e] \in Call \ {c}
    BY <1>2 DEF CallInv, RowType
  <2> QED
    BY <2>1 DEF Charged, Alone
<1> QED
  BY <1>1, <1>2

LEMMA SameUncharged ==
  ASSUME UNCHANGED <<status, declared>>, \A e \in Upload : Charged(e)' = Charged(e)
  PROVE  Uncharged' = Uncharged
BY DEF Uncharged

LEMMA QuotaKept ==
  ASSUME TypeOK, PlaceInv, LockInv, endpoint = "upload", QuotaInv, [Next]_vars
  PROVE  QuotaInv'
<1>1. CallInv /\ CallInv' /\ TypeOK'
  BY CallsKept, TypeKept DEF TypeOK, CallInv
<1>2. CallType /\ RowType /\ CallType' /\ RowType'
  BY <1>1 DEF CallInv
<1>3. /\ counter["bytes"] \in Nat /\ counter'["bytes"] \in Nat /\ MaxBytes \in Nat
      /\ peak \in Nat /\ peak' \in Nat /\ slack \in Nat /\ slack' \in Nat
      /\ "bytes" \in Key /\ Size \subseteq 0 .. MaxSize
  BY <1>1, Constants DEF TypeOK, RedisType, Key, Size
<1>4. Cardinality(Uncharged) \in Nat /\ Cardinality(ComingBytes) \in Nat
  BY QuotaSets
<1>5. counter["bytes"] + Cardinality(Uncharged) + Cardinality(ComingBytes) <= MaxBytes + peak + slack
  BY DEF QuotaInv
<1>6. ASSUME NEW c \in Call, Alone(c), Uncharged' = Uncharged,
             counter'["bytes"] + Adds(c)' + peak + slack <= counter["bytes"] + Adds(c) + peak' + slack'
      PROVE  QuotaInv'
  <2>1. /\ Adds(c) \in Nat /\ Adds(c)' \in Nat /\ Cardinality(ComingBytes') \in Nat
        /\ Cardinality(ComingBytes') + Adds(c) = Cardinality(ComingBytes) + Adds(c)'
    BY <1>2, <1>6, ComingStep
  <2>2. Cardinality(Uncharged') = Cardinality(Uncharged)
    BY <1>6
  <2>3. counter'["bytes"] + Cardinality(Uncharged') + Cardinality(ComingBytes') <= MaxBytes + peak' + slack'
    BY <1>3, <1>4, <1>5, <1>6, <2>1, <2>2
  <2> QED
    BY <2>3 DEF QuotaInv
<1>7. ASSUME NEW c \in Call, Alone(c), NEW d \in Upload,
             \A e \in Upload \ {d} : /\ status'[e] = status[e] /\ declared'[e] = declared[e]
                                     /\ Charged(e)' = Charged(e),
             counter'["bytes"] + Adds(c)' + Owed(d)' + peak + slack
               <= counter["bytes"] + Adds(c) + Owed(d) + peak' + slack'
      PROVE  QuotaInv'
  <2>1. /\ Adds(c) \in Nat /\ Adds(c)' \in Nat /\ Cardinality(ComingBytes') \in Nat
        /\ Cardinality(ComingBytes') + Adds(c) = Cardinality(ComingBytes) + Adds(c)'
    BY <1>2, <1>7, ComingStep
  <2>2. /\ Owed(d) \in Nat /\ Owed(d)' \in Nat /\ Cardinality(Uncharged') \in Nat
        /\ Cardinality(Uncharged') + Owed(d) = Cardinality(Uncharged) + Owed(d)'
    BY <1>2, <1>7, UnchargedStep
  <2>3. counter'["bytes"] + Cardinality(Uncharged') + Cardinality(ComingBytes') <= MaxBytes + peak' + slack'
    BY <1>3, <1>4, <1>5, <1>7, <2>1, <2>2
  <2> QED
    BY <2>3 DEF QuotaInv
<1>8. ASSUME NEW c \in Call, NEW n \in Size, UploadRead(c, n) PROVE QuotaInv'
  <2>1. /\ pc[c] = "idle" /\ At(c, "insert") /\ size' = [size EXCEPT ![c] = n]
        /\ UNCHANGED <<counter, key, draft, bypass, status, declared, lock>>
    BY <1>8 DEF UploadRead, redisVars, rowVars
  <2>2. Alone(c) /\ pc'[c] = "insert" /\ size'[c] = n /\ n \in Nat
    <3>1. size'[c] = n /\ n \in 0 .. MaxSize /\ n \in Nat
      BY <1>2, <1>3, <2>1, Constants DEF CallType
    <3> QED
      BY <1>2, <2>1, <3>1, Moved DEF Place
  <2>3. Uncharged' = Uncharged
    <3>1. \A e \in Upload : lock[e] # c
      BY <1>1, <2>1, Holders DEF Confirming
    <3> QED
      BY <1>1, <2>1, <2>2, <3>1, ChargedOthers, SameUncharged
  <2>4. Adds(c) = 0 /\ Adds(c)' = n
    BY <2>1, <2>2 DEF Adds
  <2>5. CASE slack' = slack + n /\ UNCHANGED peak
    BY <1>3, <1>6, <2>1, <2>2, <2>3, <2>4, <2>5
  <2>6. CASE /\ \E limit \in {MaxBytes, MaxBytes \div 2} : Usage("bytes") + n <= limit
             /\ peak' = IF OtherOpen(c) > peak THEN OtherOpen(c) ELSE peak
             /\ UNCHANGED slack
    <3>1. counter["bytes"] + n <= MaxBytes
      BY <1>3, <2>2, <2>6 DEF Usage
    <3>2. OtherOpen(c) \in Nat
      BY OpenIsNat
    <3>3. OtherOpen(c) <= peak'
      BY <1>3, <2>6, <3>2
    <3> DEFINE rest == Cardinality({t \in ComingBytes : t[1] # c})
    <3>4. rest \in Nat /\ Cardinality(ComingBytes) = rest + Adds(c)
      BY <1>2, ComingOf
    <3>5. Cardinality(Uncharged) + rest <= OtherOpen(c)
      BY OpenCovers
    <3> HIDE DEF rest
    <3>6. /\ Adds(c)' \in Nat /\ Cardinality(ComingBytes') \in Nat
          /\ Cardinality(ComingBytes') + Adds(c) = Cardinality(ComingBytes) + Adds(c)'
      BY <1>2, <2>2, ComingStep
    <3>7. Cardinality(ComingBytes') = rest + n
      BY <1>4, <2>2, <2>4, <3>4, <3>6
    <3>8. Cardinality(Uncharged') = Cardinality(Uncharged) /\ counter'["bytes"] = counter["bytes"]
      BY <2>1, <2>3
    <3>9. counter'["bytes"] + Cardinality(Uncharged') + Cardinality(ComingBytes')
            <= MaxBytes + peak' + slack'
      BY <1>3, <1>4, <2>2, <2>6, <3>1, <3>2, <3>3, <3>4, <3>5, <3>7, <3>8
    <3> QED
      BY <3>9 DEF QuotaInv
  <2> QED
    BY <1>8, <2>5, <2>6 DEF UploadRead
<1>9. ASSUME NEW c \in Call, NEW d \in Upload, UploadInsert(c, d) PROVE QuotaInv'
  <2>1. /\ pc[c] = "insert" /\ Return(c) /\ InsertDraft(d, size[c])
        /\ UNCHANGED <<counter, peak, slack>>
    BY <1>9 DEF UploadInsert, redisVars, quotaVars
  <2>2. Alone(c) /\ pc'[c] = "idle"
    BY <1>2, <2>1, Returned
  <2>3. \A e \in Upload : lock[e] # c /\ lock'[e] = lock[e]
    <3>1. \A e \in Upload : lock[e] # c
      BY <1>1, <2>1, Holders DEF Confirming
    <3> QED
      BY <2>1, <3>1 DEF Return
  <2>4. \A e \in Upload : Charged(e)' = Charged(e)
    BY <1>1, <2>2, <2>3, ChargedOthers
  <2>5. /\ \A e \in Upload \ {d} : status'[e] = status[e] /\ declared'[e] = declared[e]
        /\ status[d] = "none" /\ status'[d] = "DRAFT" /\ declared'[d] = size[c]
    BY <1>2, <2>1 DEF InsertDraft, RowType
  <2>6. Charged(d) = 0 /\ Charged(d)' = 0
    <3>1. lock[d] = NoCall
      BY <1>2, <2>5 DEF RowType
    <3> QED
      BY <2>4, <3>1 DEF Charged
  <2>7. size[c] \in Nat /\ Adds(c) = size[c] /\ Adds(c)' = 0
    BY <1>2, <2>1, <2>2, Constants DEF Adds, CallType
  <2>8. Owed(d) = 0 /\ Owed(d)' = size[c]
    BY <2>5, <2>6, <2>7 DEF Owed
  <2>9. counter'["bytes"] + Adds(c)' + Owed(d)' + peak + slack
          <= counter["bytes"] + Adds(c) + Owed(d) + peak' + slack'
    BY <1>3, <2>1, <2>7, <2>8
  <2> QED
    BY <1>7, <2>2, <2>4, <2>5, <2>9
<1>10. ASSUME NEW d \in Upload, NEW n \in Size, AdminInit(d, n) PROVE QuotaInv'
  <2>1. /\ InsertDraft(d, n) /\ slack' = slack + n /\ n \in Nat
        /\ UNCHANGED <<counter, pc, size, lock, peak>>
    BY <1>3, <1>10, Constants DEF AdminInit, redisVars, callVars
  <2>2. \A e \in Upload : Charged(e)' = Charged(e)
    BY <2>1 DEF Charged
  <2>3. /\ \A e \in Upload \ {d} : status'[e] = status[e] /\ declared'[e] = declared[e]
        /\ status[d] = "none" /\ status'[d] = "DRAFT" /\ declared'[d] = n
    BY <1>2, <1>3, <2>1 DEF InsertDraft, RowType
  <2>4. Charged(d)' = 0
    <3>1. lock[d] = NoCall
      BY <1>2, <2>3 DEF RowType
    <3> QED
      BY <2>2, <3>1 DEF Charged
  <2>5. Owed(d) = 0 /\ Owed(d)' = n
    BY <2>1, <2>3, <2>4 DEF Owed
  <2>6. /\ Cardinality(Uncharged') \in Nat
        /\ Cardinality(Uncharged') + Owed(d) = Cardinality(Uncharged) + Owed(d)'
    BY <1>2, <2>2, <2>3, UnchargedStep
  <2>7. ComingBytes' = ComingBytes
    BY <2>1 DEF ComingBytes
  <2>8. Cardinality(ComingBytes') = Cardinality(ComingBytes)
    BY <2>7
  <2>9. counter'["bytes"] + Cardinality(Uncharged') + Cardinality(ComingBytes') <= MaxBytes + peak' + slack'
    BY <1>3, <1>4, <1>5, <2>1, <2>5, <2>6, <2>8
  <2> QED
    BY <2>9 DEF QuotaInv
<1>11. ASSUME NEW c \in Call, NEW d \in Upload, NEW n \in Size, ConfirmLock(c, d, n) PROVE QuotaInv'
  <2>1. /\ pc[c] = "idle" /\ lock[d] = NoCall /\ At(c, "charge") /\ lock' = [lock EXCEPT ![d] = c]
        /\ UNCHANGED <<counter, status, declared, peak, slack>>
    BY <1>11 DEF ConfirmLock, redisVars, quotaVars
  <2>2. Alone(c) /\ pc'[c] = "charge"
    <3>1. /\ draft' = [draft EXCEPT ![c] = d] /\ size' = [size EXCEPT ![c] = n] /\ key' = key
      BY <1>11 DEF ConfirmLock
    <3> QED
      BY <1>2, <2>1, <3>1 DEF Alone, At, CallType
  <2>3. \A e \in Upload : lock[e] # c
    BY <1>1, <2>1, Holders DEF Confirming
  <2>4. ASSUME NEW e \in Upload PROVE Charged(e)' = Charged(e)
    <3>1. CASE e = d
      <4>1. lock'[d] = c
        BY <1>2, <2>1 DEF RowType
      <4> QED
        BY <2>1, <2>2, <3>1, <4>1 DEF Charged
    <3>2. CASE e # d
      <4>1. lock'[e] = lock[e]
        BY <1>2, <2>1, <3>2 DEF RowType
      <4> QED
        BY <1>1, <2>2, <2>3, <4>1, ChargedOthers
    <3> QED
      BY <3>1, <3>2
  <2>5. Uncharged' = Uncharged
    BY <2>1, <2>4, SameUncharged
  <2>6. Adds(c) = 0 /\ Adds(c)' = 0
    BY <2>1, <2>2 DEF Adds
  <2>7. counter'["bytes"] + Adds(c)' + peak + slack <= counter["bytes"] + Adds(c) + peak' + slack'
    BY <1>3, <2>1, <2>6
  <2> QED
    BY <1>6, <2>2, <2>5, <2>7
<1>12. ASSUME NEW c \in Call, ConfirmCharge(c) PROVE QuotaInv'
  <2> DEFINE n == size[c]
  <2>1. pc[c] = "charge"
    BY <1>12 DEF ConfirmCharge
  <2>2. PICK d \in Upload : d = draft[c] /\ lock[d] = c /\ status[d] = "DRAFT" /\ c # NoCall
    BY <1>1, <2>1, Holders, Constants DEF Confirming
  <2> DEFINE more == IF n > declared[d] THEN n - declared[d] ELSE 0
  <2>3. /\ pc[c] = "charge" /\ (At(c, "expireBytes") \/ At(c, "commit"))
        /\ UNCHANGED <<key, size, draft, bypass, status, declared, lock, peak>>
        /\ \/ Incr("bytes", n) /\ slack' = slack + more
           \/ UNCHANGED <<counter, slack>>
    BY <1>12, <2>2 DEF ConfirmCharge, rowVars
  <2>4. Alone(c) /\ pc'[c] \in {"expireBytes", "commit"}
    BY <1>2, <2>3, Moved, Constants DEF Place
  <2>5. \A e \in Upload \ {d} : Charged(e)' = Charged(e)
    <3>1. \A e \in Upload \ {d} : lock[e] # c /\ lock'[e] = lock[e]
      BY <1>1, <2>3, <2>2, Holders
    <3> QED
      BY <1>1, <2>4, <3>1, ChargedOthers
  <2>6. Charged(d) = 0 /\ Charged(d)' = n
    BY <2>3, <2>4, <2>2 DEF Charged
  <2>7. /\ status'[d] = "DRAFT" /\ declared'[d] = declared[d]
        /\ n \in Nat /\ declared[d] \in Nat
    BY <1>2, <2>3, <2>2, Constants DEF CallType, RowType
  <2>8. Owed(d) = declared[d] /\ Owed(d)' = IF n <= declared[d] THEN declared[d] - n ELSE 0
    <3> HIDE DEF n
    <3> QED
      BY <2>2, <2>6, <2>7 DEF Owed
  <2>9. Adds(c) = 0 /\ Adds(c)' = 0
    BY <2>3, <2>4 DEF Adds
  <2>10. \/ counter'["bytes"] = counter["bytes"] + n /\ slack' = slack + more
         \/ counter'["bytes"] = counter["bytes"] /\ slack' = slack
    BY <1>3, <2>3, <2>7, Counted DEF TypeOK
  <2>11. counter'["bytes"] + Adds(c)' + Owed(d)' + peak + slack
           <= counter["bytes"] + Adds(c) + Owed(d) + peak' + slack'
    <3> HIDE DEF n
    <3>1. peak' = peak
      BY <2>3
    <3> QED
      BY <1>3, <2>7, <2>8, <2>9, <2>10, <3>1
  <2> QED
    BY <1>7, <2>3, <2>4, <2>2, <2>5, <2>11
<1>13. ASSUME NEW c \in Call, ExpireBytes(c) PROVE QuotaInv'
  <2>1. /\ pc[c] = "expireBytes" /\ At(c, "commit")
        /\ UNCHANGED <<counter, key, size, draft, bypass, status, declared, lock, peak, slack>>
    BY <1>13 DEF ExpireBytes, rowVars, quotaVars
  <2>2. Alone(c) /\ pc'[c] = "commit"
    BY <1>2, <2>1, Moved, Constants DEF Place
  <2>3. ASSUME NEW e \in Upload PROVE Charged(e)' = Charged(e)
    <3>1. CASE lock[e] = c
      BY <2>1, <2>2, <3>1 DEF Charged
    <3>2. CASE lock[e] # c
      BY <1>1, <2>1, <2>2, <3>2, ChargedOthers
    <3> QED
      BY <3>1, <3>2
  <2>4. Uncharged' = Uncharged
    BY <2>1, <2>3, SameUncharged
  <2>5. Adds(c) = 0 /\ Adds(c)' = 0
    BY <2>1, <2>2 DEF Adds
  <2>6. counter'["bytes"] + Adds(c)' + peak + slack <= counter["bytes"] + Adds(c) + peak' + slack'
    BY <1>3, <2>1, <2>5
  <2> QED
    BY <1>6, <2>2, <2>4, <2>6
<1>14. ASSUME NEW c \in Call, ConfirmCommit(c) PROVE QuotaInv'
  <2>1. pc[c] = "commit"
    BY <1>14 DEF ConfirmCommit
  <2>2. PICK d \in Upload : d = draft[c] /\ lock[d] = c
    BY <1>1, <2>1, Holders DEF Confirming
  <2>3. /\ pc[c] = "commit" /\ Return(c) /\ status' = [status EXCEPT ![d] = "PROCESSING"]
        /\ UNCHANGED <<counter, declared, peak, slack>>
    BY <1>14, <2>2 DEF ConfirmCommit, redisVars, quotaVars
  <2>4. Alone(c) /\ pc'[c] = "idle"
    BY <1>2, <2>3, Returned
  <2>5. \A e \in Upload \ {d} : Charged(e)' = Charged(e)
    <3>1. \A e \in Upload \ {d} : lock[e] # c
      BY <1>1, <2>2, Holders
    <3>2. \A e \in Upload \ {d} : lock'[e] = lock[e]
      BY <2>3, <3>1 DEF Return
    <3> QED
      BY <1>1, <2>4, <3>1, <3>2, ChargedOthers
  <2>6. status'[d] = "PROCESSING" /\ \A e \in Upload \ {d} : status'[e] = status[e]
    BY <1>2, <2>3, <2>2 DEF RowType
  <2>7. Owed(d)' = 0 /\ Owed(d) \in Nat
    <3>1. Owed(d)' = 0
      BY <2>6 DEF Owed
    <3> QED
      BY <1>2, <2>3, <2>2, <2>5, <2>6, <3>1, UnchargedStep
  <2>8. Adds(c) = 0 /\ Adds(c)' = 0
    BY <2>3, <2>4 DEF Adds
  <2>9. counter'["bytes"] + Adds(c)' + Owed(d)' + peak + slack
          <= counter["bytes"] + Adds(c) + Owed(d) + peak' + slack'
    BY <1>3, <2>3, <2>7, <2>8
  <2> QED
    BY <1>7, <2>3, <2>4, <2>2, <2>5, <2>6, <2>9
<1>15. ASSUME NEW c \in Call, CallCut(c) PROVE QuotaInv'
  <2>1. /\ Return(c) /\ UNCHANGED <<counter, status, declared, peak>>
        /\ slack' = IF pc[c] \in {"commit", "expireBytes"} THEN slack + size[c] ELSE slack
    BY <1>15 DEF CallCut
  <2>2. Alone(c) /\ pc'[c] = "idle" /\ size[c] \in Nat
    BY <1>2, <2>1, Returned, Constants DEF CallType
  <2>3. Adds(c) \in Nat /\ Adds(c)' = 0
    BY <2>2 DEF Adds
  <2>4. \A e \in Upload : lock[e] # c => Charged(e)' = Charged(e)
    <3>1. \A e \in Upload : lock[e] # c => lock'[e] = lock[e]
      BY <2>1 DEF Return
    <3> QED
      BY <1>1, <2>2, <3>1, ChargedOthers
  <2>5. CASE ~Confirming(c)
    <3>1. \A e \in Upload : lock[e] # c
      BY <1>1, <2>5, Holders
    <3>2. Uncharged' = Uncharged
      BY <2>1, <2>4, <3>1, SameUncharged
    <3>3. counter'["bytes"] + Adds(c)' + peak + slack <= counter["bytes"] + Adds(c) + peak' + slack'
      BY <1>3, <2>1, <2>2, <2>3
    <3> QED
      BY <1>6, <2>2, <3>2, <3>3
  <2>6. CASE Confirming(c)
    <3>1. PICK d \in Upload : d = draft[c] /\ lock[d] = c /\ status[d] = "DRAFT" /\ c # NoCall
      BY <1>1, <2>6, Holders, Constants
    <3>2. \A e \in Upload \ {d} : Charged(e)' = Charged(e)
      <4>1. \A e \in Upload \ {d} : lock[e] # c
        BY <1>1, <3>1, Holders
      <4> QED
        BY <2>4, <4>1
    <3>3. lock'[d] = NoCall
      BY <2>1, <3>1 DEF Return
    <3>4. /\ Charged(d)' = 0
          /\ Charged(d) = IF pc[c] \in {"expireBytes", "commit"} THEN size[c] ELSE 0
      BY <3>1, <3>3 DEF Charged
    <3>5. declared[d] \in Nat /\ declared'[d] = declared[d] /\ status'[d] = "DRAFT"
      BY <1>2, <2>1, <3>1, Constants DEF RowType
    <3>6. slack' = slack + Charged(d) /\ Charged(d) \in Nat
      BY <1>3, <2>1, <2>2, <3>4
    <3>7. Owed(d)' = declared[d] /\ Owed(d) \in Nat /\ declared[d] <= Owed(d) + Charged(d)
      BY <3>1, <3>4, <3>5, <3>6 DEF Owed
    <3>8. counter'["bytes"] + Adds(c)' + Owed(d)' + peak + slack
            <= counter["bytes"] + Adds(c) + Owed(d) + peak' + slack'
      BY <1>3, <2>1, <2>3, <3>5, <3>6, <3>7
    <3> QED
      BY <1>7, <2>1, <2>2, <3>1, <3>2, <3>8
  <2> QED
    BY <2>5, <2>6
<1>16. ASSUME UNCHANGED <<pc, size, status, declared, lock, peak, slack>>,
              counter'["bytes"] <= counter["bytes"]
       PROVE  QuotaInv'
  <2>1. Uncharged' = Uncharged /\ ComingBytes' = ComingBytes
    BY <1>16 DEF Uncharged, Charged, ComingBytes
  <2>2. Cardinality(Uncharged') = Cardinality(Uncharged) /\ Cardinality(ComingBytes') = Cardinality(ComingBytes)
    BY <2>1
  <2>3. counter'["bytes"] + Cardinality(Uncharged') + Cardinality(ComingBytes') <= MaxBytes + peak' + slack'
    BY <1>3, <1>4, <1>5, <1>16, <2>2
  <2> QED
    BY <2>3 DEF QuotaInv
<1>17. ASSUME NEW k \in Key, Lapse(k) PROVE QuotaInv'
  <2>1. /\ UNCHANGED <<pc, size, status, declared, lock, peak, slack>>
        /\ counter' = [counter EXCEPT ![k] = 0]
    BY <1>17 DEF Lapse, callVars, rowVars, quotaVars
  <2>2. counter'["bytes"] <= counter["bytes"]
    BY <1>3, <2>1 DEF TypeOK, RedisType
  <2> QED
    BY <1>16, <2>1, <2>2
<1>18. CASE UNCHANGED vars
  <2>1. UNCHANGED <<pc, size, status, declared, lock, peak, slack, counter>>
    BY <1>18 DEF vars, callVars, rowVars, quotaVars, redisVars
  <2>2. counter'["bytes"] <= counter["bytes"]
    BY <1>3, <2>1
  <2> QED
    BY <1>16, <2>1, <2>2
<1>19. ASSUME NEW c \in Call, Proceed(c) PROVE QuotaInv'
  <2>1. endpoint \in Endpoint
    BY DEF Endpoint
  <2>2. /\ ~CheckIncr(c) /\ ~CheckExpire(c) /\ ~(\E n \in Size : DownloadBandwidth(c, n))
        /\ ~DownloadCharge(c) /\ ~DownloadCount(c) /\ ~DownloadExpireCount(c)
    BY <2>1, WhereCalls
       DEF CheckIncr, CheckExpire, DownloadBandwidth, DownloadCharge, DownloadCount, DownloadExpireCount
  <2> QED
    BY <1>9, <1>12, <1>13, <1>14, <1>19, <2>2 DEF Proceed
<1>20. /\ \A c \in Call : ~Check(c) /\ ~DownloadCheck(c)
       /\ ~OtcAttempt /\ ~WindowEnds /\ ~OtcCleanup
  BY DEF Check, DownloadCheck, OtcAttempt, WindowEnds, OtcCleanup
<1> QED
  BY <1>8, <1>10, <1>11, <1>15, <1>17, <1>18, <1>19, <1>20 DEF Next

-----------------------------------------------------------------------------
(* The theorems. *)

LEMMA InvInit == Init => Inv
<1> SUFFICES ASSUME Init PROVE Inv
  OBVIOUS
<1> USE Constants DEF Init
<1>1. CallType
  BY DEF CallType, Place, Key
<1>2. RowType
  BY DEF RowType
<1>3. RedisType
  BY DEF RedisType, Key
<1>4. TypeOK
  BY <1>1, <1>2, <1>3 DEF TypeOK
<1>5. PlaceInv
  BY Places DEF PlaceInv, Endpoint
<1>6. LockInv
  BY DEF LockInv, Confirming
<1>7. Past("count") = {} /\ Past("other") = {} /\ Due = {}
  BY DEF Past, Due
<1>8. Cardinality({}) = 0
  BY FS_EmptySet
<1>9. CountInv
  BY <1>7, <1>8 DEF CountInv, Key
<1>10. ByteInv
  <2>1. Racing + faults \in Nat /\ faults \in Nat
    OBVIOUS
  <2>2. Files(0) = 0 /\ Files(Racing + faults) \in Nat /\ Files(faults) \in Nat
    BY <2>1, FileSum
  <2>3. served["bytes"] = 0 /\ counter["bytes"] = 0
    BY DEF Key
  <2> QED
    BY <1>7, <1>8, <2>2, <2>3 DEF ByteInv
<1>11. QuotaInv
  <2>1. Uncharged = {} /\ ComingBytes = {}
    BY DEF Uncharged, ComingBytes
  <2>2. counter["bytes"] = 0
    BY DEF Key
  <2> QED
    BY <1>8, <2>1, <2>2 DEF QuotaInv
<1> QED
  BY <1>4, <1>5, <1>6, <1>9, <1>10, <1>11 DEF Inv

LEMMA InvNext == Inv /\ [Next]_vars => Inv'
<1> SUFFICES ASSUME Inv, [Next]_vars PROVE Inv'
  OBVIOUS
<1>1. TypeOK /\ PlaceInv /\ LockInv /\ CountInv
  BY DEF Inv
<1>2. TypeOK' /\ PlaceInv' /\ LockInv'
  BY <1>1, TypeKept, CallsKept DEF CallInv, TypeOK
<1>3. CountInv'
  BY <1>1, LimitsKept
<1>4. endpoint' = endpoint
  BY DEF Next, vars, Proceed, Check, CheckIncr, CheckExpire, DownloadCheck, DownloadBandwidth,
         DownloadCharge, ExpireBytes, DownloadCount, DownloadExpireCount, UploadRead, UploadInsert,
         AdminInit, ConfirmLock, ConfirmCharge, ConfirmCommit, CallCut, Lapse, OtcAttempt, WindowEnds,
         OtcCleanup
<1>5. endpoint = "download" => ByteInv'
  BY <1>1, BytesKept DEF Inv
<1>6. endpoint = "upload" => QuotaInv'
  BY <1>1, QuotaKept DEF Inv
<1> QED
  BY <1>2, <1>3, <1>4, <1>5, <1>6 DEF Inv

\* The counters of rate_limiter.rs and the quota of the uploads always satisfy the
\* invariant, whatever order the commands of the requests reach Redis in.
THEOREM LimitInvariant == Spec => []Inv
<1> QED
  BY InvInit, InvNext, PTL DEF Spec

\* Every variable has its type; in particular the limiter in memory never lets more
\* than MaxCount attempts into a window.
THEOREM LimitTypes == Spec => []TypeOK
<1>1. Inv => TypeOK
  BY DEF Inv
<1> QED
  BY <1>1, LimitInvariant, PTL

LEMMA InvBounds == Inv => OvershootBounded
<1> SUFFICES ASSUME Inv PROVE OvershootBounded
  OBVIOUS
<1> USE Constants
<1>1. faults \in Nat /\ served \in [Key -> Nat] /\ counter \in [Key -> Nat] /\ size \in [Call -> 0 .. MaxSize]
      /\ peak \in Nat /\ slack \in Nat /\ "count" \in Key /\ "other" \in Key /\ "bytes" \in Key
  BY DEF Inv, TypeOK, RedisType, CallType, Key
<1>2. ASSUME NEW k \in {"count", "other"} PROVE served[k] <= MaxCount + Racing + faults
  <2>1. Cardinality(Past(k)) \in Nat
    BY CallSets DEF Past
  <2>2. served[k] + Cardinality(Past(k)) <= MaxCount + Racing + faults
    BY <1>2 DEF Inv, CountInv
  <2> QED
    BY <1>1, <2>1, <2>2
<1>3. ASSUME endpoint = "download" PROVE served["bytes"] <= MaxBytes + (Racing + faults) * MaxSize
  <2> DEFINE most == MaxBytes + Files(Racing + faults)
  <2>1. Due \in SUBSET Call /\ Cardinality(Due) \in Nat
    BY CallSets DEF Due
  <2>2. Files(Racing + faults) \in Nat /\ most \in Nat
    <3>1. Racing + faults \in Nat
      BY <1>1
    <3>2. Files(Racing + faults) \in Nat
      BY <3>1, FileSum
    <3> QED
      BY <3>2
  <2>3. \/ served["bytes"] + Files(Cardinality(Due)) <= most
        \/ \E c \in Due : served["bytes"] + size[c] + Files(Cardinality(Due) - 1) <= most
    BY <1>3 DEF Inv, ByteInv
  <2>4. CASE served["bytes"] + Files(Cardinality(Due)) <= most
    <3>1. Files(Cardinality(Due)) \in Nat
      BY <2>1, FileSum
    <3> QED
      BY <1>1, <2>2, <2>4, <3>1 DEF Files
  <2>5. CASE \E c \in Due : served["bytes"] + size[c] + Files(Cardinality(Due) - 1) <= most
    <3>1. PICK c \in Due : served["bytes"] + size[c] + Files(Cardinality(Due) - 1) <= most
      BY <2>5
    <3>2. Cardinality(Due) >= 1 /\ c \in Call
      BY <2>1, <3>1, CallSets
    <3>3. size[c] \in Nat /\ Cardinality(Due) - 1 \in Nat
      BY <1>1, <2>1, <3>2
    <3>4. Files(Cardinality(Due) - 1) \in Nat
      BY <3>3, FileSum
    <3>5. served["bytes"] <= most
      BY <1>1, <2>2, <3>1, <3>4, <3>3
    <3> QED
      BY <3>5 DEF Files
  <2> QED
    BY <2>3, <2>4, <2>5
<1>4. ASSUME endpoint = "upload" PROVE counter["bytes"] <= MaxBytes + peak + slack
  <2>1. Cardinality(Uncharged) \in Nat /\ Cardinality(ComingBytes) \in Nat
    BY QuotaSets DEF Inv
  <2>2. counter["bytes"] + Cardinality(Uncharged) + Cardinality(ComingBytes) <= MaxBytes + peak + slack
    BY <1>4 DEF Inv, QuotaInv
  <2> QED
    BY <1>1, <2>1, <2>2
<1> QED
  BY <1>2, <1>3, <1>4 DEF OvershootBounded

\* Requests that read a limit together overshoot it by fewer requests (or files) than
\* there are, plus one for every command that failed; uploads by what was open when
\* the last was let in and what repeated confirmations charge twice.
THEOREM OvershootIsBounded == Spec => []OvershootBounded
<1> QED
  BY InvBounds, LimitInvariant, PTL
=============================================================================
