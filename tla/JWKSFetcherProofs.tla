------------------------- MODULE JWKSFetcherProofs -------------------------
(***************************************************************************)
(* Proofs about JWKSFetcher, for any number of threads, keys, rotations    *)
(* and restarts: IInv is inductive, and the safety properties follow.      *)
(***************************************************************************)
EXTENDS JWKSProperties, TLAPS

(* What membership of Seq(S) says.                                         *)
LEMMA EntriesTyped ==
  ASSUME NEW S, NEW q \in Seq(S)
  PROVE  Len(q) \in Nat /\ \A v \in 1..Len(q) : q[v] \in S
OBVIOUS

USE DEF Refreshing, Requests, Publications, Exchanges

(* What TypeOK says of the entries of the publication history.             *)
LEMMA PubTypes ==
  ASSUME TypeOK
  PROVE  /\ Len(pubs) \in Nat
         /\ \A v \in 1..Len(pubs) :
               pubs[v] \in Publications /\ pubs[v].at \in Nat /\ pubs[v].keys \subseteq Kids
<1>1. pubs \in Seq(Publications)
  BY DEF TypeOK
<1>2. Len(pubs) \in Nat /\ \A v \in 1..Len(pubs) : pubs[v] \in Publications
  BY <1>1, EntriesTyped
<1> QED
  BY <1>2

(* A call ends with values of the right types.                             *)
LEMMA EndsTypes ==
  ASSUME TypeOK, NEW t \in Threads, NEW K \in SUBSET Kids,
         NEW kind \in {"keys", "JWKSError", "OtherError"}, Ends(t, kind, K)
  PROVE  /\ pc' \in [Threads -> {"idle", "waiting", "returned"} \cup Refreshing]
         /\ answer' \in [Threads -> [kind : Exchanges \cup {"none"}, keys : SUBSET Kids,
                                     ver : Nat, at : Nat]]
         /\ outcome' \in [Threads -> [kind : {"none", "keys", "JWKSError", "OtherError"},
                                      keys : SUBSET Kids]]
         /\ lock' = NoThread
<1>1. NoAnswer \in [kind : Exchanges \cup {"none"}, keys : SUBSET Kids, ver : Nat, at : Nat]
  BY DEF NoAnswer
<1>2. [kind |-> kind, keys |-> K]
        \in [kind : {"none", "keys", "JWKSError", "OtherError"}, keys : SUBSET Kids]
  OBVIOUS
<1> QED
  BY <1>1, <1>2 DEF Ends, Goto, TypeOK

(* The initial states satisfy the invariant.                               *)
LEMMA InitIInv == Init => IInv
<1> SUFFICES ASSUME Init PROVE IInv
  OBVIOUS
<1> USE TimeAssumption, ThreadsAssumption DEF Init
<1>1. TypeOK
  BY DEF TypeOK, NoAnswer, Pending, EmptyDisk
<1>2. LockInv
  BY DEF LockInv
<1>3. RealmInv
  BY DEF RealmInv
<1>4. CacheInv
  BY DEF CacheInv, Genuine
<1>5. DiskInv
  BY DEF DiskInv, Genuine, EmptyDisk
<1>6. AnswerInv
  BY DEF AnswerInv, AnswerOK
<1> QED
  BY <1>1, <1>2, <1>3, <1>4, <1>5, <1>6 DEF IInv

(* A call begins.                                                        *)
LEMMA CallIInv ==
  ASSUME IInv, NEW t \in Threads, NEW r \in Requests, Call(t, r)
  PROVE  IInv'
<1> USE DEF Call, Goto, IInv, realm, cache
<1>1. TypeOK'
  BY DEF TypeOK
<1>2. LockInv'
  BY ThreadsAssumption DEF LockInv, TypeOK
<1>3. RealmInv' /\ CacheInv' /\ DiskInv'
  BY DEF RealmInv, CacheInv, DiskInv, Genuine
<1>4. AnswerInv'
  <2> SUFFICES ASSUME NEW s \in Threads PROVE AnswerOK(s)'
    BY DEF AnswerInv
  <2> AnswerOK(s) /\ AnswerOK(t)
    BY DEF AnswerInv
  <2>1. CASE s = t
    BY <2>1 DEF AnswerOK, TypeOK, Hits, Cached, Expired, Genuine, CurrentAt
  <2>2. CASE s # t
    BY <2>2, ThreadsAssumption DEF AnswerOK, TypeOK, Hits, Cached, Expired, Genuine, CurrentAt, LockInv
  <2> QED
    BY <2>1, <2>2
<1> QED
  BY <1>1, <1>2, <1>3, <1>4

(* A call is answered from memory.                                       *)
LEMMA HitIInv ==
  ASSUME IInv, NEW t \in Threads, Hit(t)
  PROVE  IInv'
<1> USE DEF Hit, Goto, Ends, IInv, realm, cache
<1>1. TypeOK'
  BY DEF TypeOK, Hits, Cached, KeysFor, NoAnswer
<1>2. LockInv'
  BY ThreadsAssumption DEF LockInv, TypeOK
<1>3. RealmInv' /\ CacheInv' /\ DiskInv'
  BY DEF RealmInv, CacheInv, DiskInv, Genuine
<1>4. AnswerInv'
  <2> SUFFICES ASSUME NEW s \in Threads PROVE AnswerOK(s)'
    BY DEF AnswerInv
  <2> AnswerOK(s) /\ AnswerOK(t)
    BY DEF AnswerInv
  <2>1. CASE s = t
    BY <2>1 DEF AnswerOK, TypeOK, Hits, Cached, Expired, Genuine, CurrentAt
  <2>2. CASE s # t
    BY <2>2, ThreadsAssumption DEF AnswerOK, TypeOK, Hits, Cached, Expired, Genuine, CurrentAt, LockInv
  <2> QED
    BY <2>1, <2>2
<1> QED
  BY <1>1, <1>2, <1>3, <1>4

(* A thread takes the lock to refresh.                                   *)
LEMMA StartRefreshIInv ==
  ASSUME IInv, NEW t \in Threads, StartRefresh(t)
  PROVE  IInv'
<1> USE DEF StartRefresh, Goto, IInv, realm, cache
<1>1. TypeOK'
  BY DEF TypeOK
<1>2. LockInv'
  BY ThreadsAssumption DEF LockInv, TypeOK
<1>3. RealmInv' /\ CacheInv' /\ DiskInv'
  BY DEF RealmInv, CacheInv, DiskInv, Genuine
<1>4. AnswerInv'
  <2> SUFFICES ASSUME NEW s \in Threads PROVE AnswerOK(s)'
    BY DEF AnswerInv
  <2> AnswerOK(s) /\ AnswerOK(t)
    BY DEF AnswerInv
  <2>1. CASE s = t
    BY <2>1, TimeAssumption DEF AnswerOK, TypeOK, Hits, Cached, Expired, Genuine, CurrentAt
  <2>2. CASE s # t
    BY <2>2, ThreadsAssumption DEF AnswerOK, TypeOK, Hits, Cached, Expired, Genuine, CurrentAt, LockInv
  <2> QED
    BY <2>1, <2>2
<1> QED
  BY <1>1, <1>2, <1>3, <1>4

(* The answer is of the publication then current, and of its time.       *)
LEMMA AnswerIInv ==
  ASSUME IInv, NEW t \in Threads, NEW kind \in AnswerKinds, Answer(t, kind)
  PROVE  IInv'
<1> USE OptionsAssumption, TimeAssumption DEF Answer, Goto, IInv, realm, cache
<1>1. TypeOK'
  <2>1. pubs[Len(pubs)] \in Publications /\ Len(pubs) \in Nat
    BY PubTypes DEF RealmInv
  <2>2. answer' \in [Threads -> [kind : Exchanges \cup {"none"}, keys : SUBSET Kids,
                                ver : Nat, at : Nat]]
    BY <2>1 DEF TypeOK
  <2> QED
    BY <2>2 DEF TypeOK
<1>2. LockInv'
  BY ThreadsAssumption DEF LockInv, TypeOK
<1>3. RealmInv' /\ CacheInv' /\ DiskInv'
  BY DEF RealmInv, CacheInv, DiskInv, Genuine
<1>4. AnswerInv'
  <2> SUFFICES ASSUME NEW s \in Threads PROVE AnswerOK(s)'
    BY DEF AnswerInv
  <2> AnswerOK(s) /\ AnswerOK(t)
    BY DEF AnswerInv
  <2>1. CASE s = t
    BY <2>1 DEF AnswerOK, TypeOK, Hits, Cached, Expired, Genuine, CurrentAt, RealmInv, CacheInv
  <2>2. CASE s # t
    BY <2>2, ThreadsAssumption DEF AnswerOK, TypeOK, Hits, Cached, Expired, Genuine, CurrentAt, LockInv
  <2> QED
    BY <2>1, <2>2
<1> QED
  BY <1>1, <1>2, <1>3, <1>4

(* Falling back on what is cached changes nothing of it.                 *)
LEMMA UseStaleIInv ==
  ASSUME IInv, NEW t \in Threads, UseStale(t)
  PROVE  IInv'
<1> USE DEF UseStale, Goto, IInv, realm, cache
<1>1. TypeOK'
  BY DEF TypeOK
<1>2. LockInv'
  BY ThreadsAssumption DEF LockInv, TypeOK
<1>3. RealmInv' /\ CacheInv' /\ DiskInv'
  BY DEF RealmInv, CacheInv, DiskInv, Genuine
<1>4. AnswerInv'
  <2> SUFFICES ASSUME NEW s \in Threads PROVE AnswerOK(s)'
    BY DEF AnswerInv
  <2> AnswerOK(s) /\ AnswerOK(t)
    BY DEF AnswerInv
  <2>1. CASE s = t
    BY <2>1 DEF AnswerOK, TypeOK, Hits, Cached, Expired, Genuine, CurrentAt
  <2>2. CASE s # t
    BY <2>2, ThreadsAssumption DEF AnswerOK, TypeOK, Hits, Cached, Expired, Genuine, CurrentAt, LockInv
  <2> QED
    BY <2>1, <2>2
<1> QED
  BY <1>1, <1>2, <1>3, <1>4

(* A failed refresh lets go of the lock.                                 *)
LEMMA RefreshFailsIInv ==
  ASSUME IInv, NEW t \in Threads, RefreshFails(t)
  PROVE  IInv'
<1>1. TypeOK'
  <2>1. \E kind \in {"JWKSError", "OtherError"} : Ends(t, kind, {})
    BY DEF RefreshFails
  <2>2. PICK kind \in {"keys", "JWKSError", "OtherError"} : Ends(t, kind, {})
    BY <2>1
  <2> QED
    BY <2>2, EndsTypes DEF RefreshFails, TypeOK, IInv, realm, cache
<1> USE DEF RefreshFails, Goto, Ends, IInv, realm, cache
<1>2. LockInv'
  BY ThreadsAssumption DEF LockInv, TypeOK
<1>3. RealmInv' /\ CacheInv' /\ DiskInv'
  BY DEF RealmInv, CacheInv, DiskInv, Genuine
<1>4. AnswerInv'
  <2> SUFFICES ASSUME NEW s \in Threads PROVE AnswerOK(s)'
    BY DEF AnswerInv
  <2> AnswerOK(s) /\ AnswerOK(t)
    BY DEF AnswerInv
  <2>1. CASE s = t
    BY <2>1 DEF AnswerOK, TypeOK, Hits, Cached, Expired, Genuine, CurrentAt
  <2>2. CASE s # t
    BY <2>2, ThreadsAssumption DEF AnswerOK, TypeOK, Hits, Cached, Expired, Genuine, CurrentAt, LockInv
  <2> QED
    BY <2>1, <2>2
<1> QED
  BY <1>1, <1>2, <1>3, <1>4

(* The cache becomes what the answer said, which was current Lag ago.    *)
LEMMA AdoptIInv ==
  ASSUME IInv, NEW t \in Threads, Adopt(t)
  PROVE  IInv'
<1> USE TimeAssumption DEF Adopt, Goto, IInv, realm, cache
<1>1. TypeOK'
  BY DEF TypeOK
<1>2. LockInv'
  BY ThreadsAssumption DEF LockInv, TypeOK
<1>3. RealmInv' /\ DiskInv'
  BY DEF RealmInv, DiskInv, Genuine, AnswerInv, AnswerOK, TypeOK
<1>5. CacheInv'
  <2>1. AnswerOK(t)
    BY DEF AnswerInv
  <2>2. /\ Genuine(answer[t].keys, answer[t].ver)
        /\ clock <= answer[t].at + Lag
        /\ CurrentAt(answer[t].ver, answer[t].at)
    BY <2>1 DEF AnswerOK
  <2>3. /\ answer[t].at \in Nat /\ answer[t].ver \in Nat
        /\ clock \in Nat /\ back \in Nat /\ Len(pubs) \in Nat
    BY DEF TypeOK
  <2>4. \A w \in 1..Len(pubs) : pubs[w].at \in Nat
    BY PubTypes
  <2>5. \A w \in answer[t].ver+1..Len(pubs) : clock <= pubs[w].at + Lag
    BY <2>2, <2>3, <2>4 DEF CurrentAt
  <2>6. \A w \in answer[t].ver+1..Len(pubs) : clock <= pubs[w].at + Lag + back
    BY <2>3, <2>4, <2>5
  <2> QED
    BY <2>2, <2>3, <2>6 DEF CacheInv, Genuine
<1>4. AnswerInv'
  <2> SUFFICES ASSUME NEW s \in Threads PROVE AnswerOK(s)'
    BY DEF AnswerInv
  <2> AnswerOK(s) /\ AnswerOK(t)
    BY DEF AnswerInv
  <2>1. CASE s = t
    BY <2>1 DEF AnswerOK, TypeOK, Hits, Cached, Expired, Genuine, CurrentAt
  <2>2. CASE s # t
    BY <2>2, ThreadsAssumption DEF AnswerOK, TypeOK, Hits, Cached, Expired, Genuine, CurrentAt, LockInv
  <2> QED
    BY <2>1, <2>2
<1> QED
  BY <1>1, <1>2, <1>3, <1>4, <1>5

(* A truncated file holds no key set.                                    *)
LEMMA OpenForWriteIInv ==
  ASSUME IInv, NEW t \in Threads, OpenForWrite(t)
  PROVE  IInv'
<1> USE DEF OpenForWrite, Torn, Goto, IInv, realm, cache
<1>1. TypeOK'
  BY DEF TypeOK
<1>2. LockInv'
  BY ThreadsAssumption DEF LockInv, TypeOK
<1>3. RealmInv' /\ CacheInv' /\ DiskInv'
  BY DEF RealmInv, CacheInv, DiskInv, Genuine, TypeOK
<1>4. AnswerInv'
  <2> SUFFICES ASSUME NEW s \in Threads PROVE AnswerOK(s)'
    BY DEF AnswerInv
  <2> AnswerOK(s) /\ AnswerOK(t)
    BY DEF AnswerInv
  <2>1. CASE s = t
    BY <2>1 DEF AnswerOK, TypeOK, Hits, Cached, Expired, Genuine, CurrentAt
  <2>2. CASE s # t
    BY <2>2, ThreadsAssumption DEF AnswerOK, TypeOK, Hits, Cached, Expired, Genuine, CurrentAt, LockInv
  <2> QED
    BY <2>1, <2>2
<1> QED
  BY <1>1, <1>2, <1>3, <1>4

(* The file becomes what was just adopted, or is torn.                   *)
LEMMA WriteIInv ==
  ASSUME IInv, NEW t \in Threads, Write(t)
  PROVE  IInv'
<1> USE DEF Write, Goto, IInv, realm, cache
<1>1. TypeOK'
  <2>1. CASE disk' = Torn
    BY <2>1 DEF TypeOK, Torn
  <2>2. CASE disk' = [state |-> "good", keys |-> answer[t].keys, ver |-> answer[t].ver]
    BY <2>2 DEF TypeOK
  <2> QED
    BY <2>1, <2>2
<1>2. LockInv'
  BY ThreadsAssumption DEF LockInv, TypeOK
<1>3. RealmInv' /\ CacheInv'
  BY DEF RealmInv, CacheInv, Genuine
<1>5. DiskInv'
  <2>1. AnswerOK(t) /\ Genuine(keys, keysVer)
    BY DEF AnswerInv, CacheInv
  <2>2. UseDisk /\ answer[t].keys = keys /\ answer[t].ver = keysVer /\ keysVer \in Nat
    BY <2>1 DEF AnswerOK, TypeOK
  <2>3. CASE disk' = Torn
    BY <2>3 DEF DiskInv, Genuine, Torn, TypeOK
  <2>4. CASE disk' = [state |-> "good", keys |-> answer[t].keys, ver |-> answer[t].ver]
    BY <2>1, <2>2, <2>4 DEF DiskInv, Genuine
  <2> QED
    BY <2>3, <2>4
<1>4. AnswerInv'
  <2> SUFFICES ASSUME NEW s \in Threads PROVE AnswerOK(s)'
    BY DEF AnswerInv
  <2> AnswerOK(s) /\ AnswerOK(t)
    BY DEF AnswerInv
  <2>1. CASE s = t
    BY <2>1 DEF AnswerOK, TypeOK, Hits, Cached, Expired, Genuine, CurrentAt
  <2>2. CASE s # t
    BY <2>2, ThreadsAssumption DEF AnswerOK, TypeOK, Hits, Cached, Expired, Genuine, CurrentAt, LockInv
  <2> QED
    BY <2>1, <2>2
<1> QED
  BY <1>1, <1>2, <1>3, <1>4, <1>5

(* A failed save changes nothing but the program counter.                *)
LEMMA SaveFailsIInv ==
  ASSUME IInv, NEW t \in Threads, SaveFails(t)
  PROVE  IInv'
<1> USE DEF SaveFails, Goto, IInv, realm, cache
<1>1. TypeOK'
  BY DEF TypeOK
<1>2. LockInv'
  BY ThreadsAssumption DEF LockInv, TypeOK
<1>3. RealmInv' /\ CacheInv' /\ DiskInv'
  BY DEF RealmInv, CacheInv, DiskInv, Genuine
<1>4. AnswerInv'
  <2> SUFFICES ASSUME NEW s \in Threads PROVE AnswerOK(s)'
    BY DEF AnswerInv
  <2> AnswerOK(s) /\ AnswerOK(t)
    BY DEF AnswerInv
  <2>1. CASE s = t
    BY <2>1 DEF AnswerOK, TypeOK, Hits, Cached, Expired, Genuine, CurrentAt
  <2>2. CASE s # t
    BY <2>2, ThreadsAssumption DEF AnswerOK, TypeOK, Hits, Cached, Expired, Genuine, CurrentAt, LockInv
  <2> QED
    BY <2>1, <2>2
<1> QED
  BY <1>1, <1>2, <1>3, <1>4

(* A call ends after its refresh.                                        *)
LEMMA ReturnIInv ==
  ASSUME IInv, NEW t \in Threads, Return(t)
  PROVE  IInv'
<1>1. TypeOK'
  <2>1. CASE Cached(want[t]) /\ Ends(t, "keys", KeysFor(want[t]))
    <3>1. KeysFor(want[t]) \in SUBSET Kids
      BY <2>1 DEF KeysFor, Cached, IInv, TypeOK
    <3> QED
      BY <2>1, <3>1, EndsTypes DEF Return, TypeOK, IInv, realm, cache
  <2>2. CASE ~Cached(want[t]) /\ Ends(t, "JWKSError", {})
    BY <2>2, EndsTypes DEF Return, TypeOK, IInv, realm, cache
  <2> QED
    BY <2>1, <2>2 DEF Return
<1> USE DEF Return, Goto, Ends, IInv, realm, cache
<1>2. LockInv'
  BY ThreadsAssumption DEF LockInv, TypeOK
<1>3. RealmInv' /\ CacheInv' /\ DiskInv'
  BY DEF RealmInv, CacheInv, DiskInv, Genuine
<1>4. AnswerInv'
  <2> SUFFICES ASSUME NEW s \in Threads PROVE AnswerOK(s)'
    BY DEF AnswerInv
  <2> AnswerOK(s) /\ AnswerOK(t)
    BY DEF AnswerInv
  <2>1. CASE s = t
    BY <2>1 DEF AnswerOK, TypeOK, Hits, Cached, Expired, Genuine, CurrentAt
  <2>2. CASE s # t
    BY <2>2, ThreadsAssumption DEF AnswerOK, TypeOK, Hits, Cached, Expired, Genuine, CurrentAt, LockInv
  <2> QED
    BY <2>1, <2>2
<1> QED
  BY <1>1, <1>2, <1>3, <1>4

(* A finished call is forgotten.                                         *)
LEMMA TakeIInv ==
  ASSUME IInv, NEW t \in Threads, Take(t)
  PROVE  IInv'
<1> USE DEF Take, Goto, IInv, realm, cache
<1>1. TypeOK'
  BY DEF TypeOK, NoAnswer, Pending
<1>2. LockInv'
  BY ThreadsAssumption DEF LockInv, TypeOK
<1>3. RealmInv' /\ CacheInv' /\ DiskInv'
  BY DEF RealmInv, CacheInv, DiskInv, Genuine
<1>4. AnswerInv'
  <2> SUFFICES ASSUME NEW s \in Threads PROVE AnswerOK(s)'
    BY DEF AnswerInv
  <2> AnswerOK(s) /\ AnswerOK(t)
    BY DEF AnswerInv
  <2>1. CASE s = t
    BY <2>1 DEF AnswerOK, TypeOK, Hits, Cached, Expired, Genuine, CurrentAt
  <2>2. CASE s # t
    BY <2>2, ThreadsAssumption DEF AnswerOK, TypeOK, Hits, Cached, Expired, Genuine, CurrentAt, LockInv
  <2> QED
    BY <2>1, <2>2
<1> QED
  BY <1>1, <1>2, <1>3, <1>4

(* A new publication is later than everything learnt before it.          *)
LEMMA RotateIInv ==
  ASSUME IInv, NEW K \in SUBSET Kids, Rotate(K)
  PROVE  IInv'
<1> USE DEF Rotate, IInv, cache, calls
<1>1. TypeOK'
  BY DEF TypeOK
<1>2. LockInv'
  BY DEF LockInv
<1>3. RealmInv'
  BY DEF RealmInv, TypeOK
<1>4. /\ Len(pubs') = Len(pubs) + 1 /\ Len(pubs) \in Nat
      /\ \A v \in 1..Len(pubs) : pubs'[v] = pubs[v] /\ pubs[v].at \in Nat
      /\ pubs'[Len(pubs)+1] = [keys |-> K, at |-> clock]
  BY PubTypes DEF TypeOK
<1>5. CacheInv'
  BY <1>4, TimeAssumption DEF CacheInv, Genuine, TypeOK, RealmInv
<1>6. DiskInv'
  BY <1>4 DEF DiskInv, Genuine, TypeOK
<1>7. AnswerInv'
  <2> SUFFICES ASSUME NEW s \in Threads PROVE AnswerOK(s)'
    BY DEF AnswerInv
  <2>1. AnswerOK(s)
    BY DEF AnswerInv
  <2>2. answer[s].ver \in Nat /\ answer[s].at \in Nat
    BY DEF TypeOK
  <2>3. CASE pc[s] = "answered"
    <3>1. Genuine(answer[s].keys, answer[s].ver)'
      BY <2>1, <2>2, <2>3, <1>4 DEF AnswerOK, Genuine
    <3>2. answer[s].at <= clock
      BY <2>1, <2>3 DEF AnswerOK
    <3>3. CurrentAt(answer[s].ver, answer[s].at)'
      BY <2>1, <2>2, <2>3, <3>2, <1>4 DEF AnswerOK, CurrentAt
    <3> QED
      BY <2>1, <2>3, <3>1, <3>3 DEF AnswerOK
  <2>4. CASE pc[s] # "answered"
    BY <2>1, <2>4 DEF AnswerOK, Hits, Cached, Expired
  <2> QED
    BY <2>3, <2>4
<1> QED
  BY <1>1, <1>2, <1>3, <1>5, <1>6, <1>7

(* Time passes within the bound on answers under way.                    *)
LEMMA TickIInv ==
  ASSUME IInv, Tick
  PROVE  IInv'
<1> USE TimeAssumption, BoundsAssumption DEF Tick, IInv, cache, calls
<1>1. TypeOK'
  BY DEF TypeOK
<1>2. LockInv'
  BY DEF LockInv
<1>3. RealmInv'
  BY PubTypes DEF RealmInv, TypeOK
<1>4. CacheInv'
  BY DEF CacheInv, Genuine, TypeOK, RealmInv
<1>5. DiskInv'
  BY DEF DiskInv, Genuine, TypeOK
<1>6. AnswerInv'
  <2> SUFFICES ASSUME NEW s \in Threads PROVE AnswerOK(s)'
    BY DEF AnswerInv
  <2> AnswerOK(s)
    BY DEF AnswerInv
  <2> QED
    BY DEF AnswerOK, TypeOK, Hits, Cached, Expired, Genuine, CurrentAt, RealmInv, CacheInv
<1> QED
  BY <1>1, <1>2, <1>3, <1>4, <1>5, <1>6

(* The clock is set back, and what it timed is later by as much.         *)
LEMMA SetBackIInv ==
  ASSUME IInv, SetBack
  PROVE  IInv'
<1> USE TimeAssumption, BoundsAssumption DEF SetBack, IInv, calls
<1>1. TypeOK' /\ DiskInv'
  BY DEF TypeOK, DiskInv, Genuine
<1>2. LockInv' /\ RealmInv'
  BY DEF LockInv, RealmInv
<1>3. CacheInv'
  BY PubTypes DEF CacheInv, Genuine, TypeOK, RealmInv
<1>4. AnswerInv'
  <2> SUFFICES ASSUME NEW s \in Threads PROVE AnswerOK(s)'
    BY DEF AnswerInv
  <2> AnswerOK(s)
    BY DEF AnswerInv
  <2> QED
    BY DEF AnswerOK, TypeOK, Cached, Genuine, CurrentAt, RealmInv
<1> QED
  BY <1>1, <1>2, <1>3, <1>4

(* Another process leaves a publication in the shared file, or tears it. *)
LEMMA OtherSavesIInv ==
  ASSUME IInv, OtherSaves
  PROVE  IInv'
<1> USE DEF OtherSaves, IInv, realm, cache, calls
<1>1. TypeOK' /\ DiskInv'
  <2>1. CASE disk' = Torn
    BY <2>1 DEF TypeOK, DiskInv, Genuine, Torn
  <2>2. ASSUME NEW v \in 1..Len(pubs), NEW K \in {pubs[v].keys, {}},
               disk' = [state |-> "good", keys |-> K, ver |-> v]
        PROVE  TypeOK' /\ DiskInv'
    <3>1. pubs[v].keys \subseteq Kids /\ v \in Nat /\ v > 0 /\ v <= Len(pubs)
      BY PubTypes
    <3>2. UseDisk
      BY OptionsAssumption
    <3> QED
      BY <2>2, <3>1, <3>2 DEF TypeOK, DiskInv, Genuine
  <2> QED
    BY <2>1, <2>2
<1>2. LockInv' /\ RealmInv' /\ CacheInv'
  BY DEF LockInv, RealmInv, CacheInv, Genuine
<1>3. AnswerInv'
  BY DEF AnswerInv, AnswerOK, Genuine, CurrentAt, Hits, Cached, Expired
<1> QED
  BY <1>1, <1>2, <1>3

(* A new process starts from a genuine disk copy, or from nothing.       *)
LEMMA RestartIInv ==
  ASSUME IInv, Restart
  PROVE  IInv'
<1> USE DEF Restart, IInv, realm, LoadedAt
<1>1. TypeOK'
  BY DEF TypeOK, NoAnswer, Pending
<1>2. LockInv'
  BY ThreadsAssumption DEF LockInv
<1>3. RealmInv'
  BY DEF RealmInv
<1>4. CacheInv'
  BY TimeAssumption, PubTypes DEF CacheInv, DiskInv, Genuine, TypeOK, RealmInv
<1>5. DiskInv'
  BY DEF DiskInv, Genuine, TypeOK
<1>6. AnswerInv'
  BY DEF AnswerInv, AnswerOK
<1> QED
  BY <1>1, <1>2, <1>3, <1>4, <1>5, <1>6

(* Every step preserves the invariant.                                     *)
LEMMA NextIInv == IInv /\ [Next]_vars => IInv'
<1> SUFFICES ASSUME IInv, [Next]_vars PROVE IInv'
  OBVIOUS
<1>1. ASSUME NEW t \in Threads, Progress(t) PROVE IInv'
  BY <1>1, HitIInv, StartRefreshIInv, AnswerIInv, UseStaleIInv, RefreshFailsIInv,
     AdoptIInv, OpenForWriteIInv, WriteIInv, SaveFailsIInv, ReturnIInv DEF Progress
<1>2. ASSUME NEW t \in Threads, Take(t) PROVE IInv'
  BY <1>2, TakeIInv
<1>3. ASSUME NEW t \in Threads, NEW r \in Requests, Call(t, r) PROVE IInv'
  BY <1>3, CallIInv
<1>4. ASSUME NEW K \in SUBSET Kids, Rotate(K) PROVE IInv'
  BY <1>4, RotateIInv
<1>5. CASE Tick
  BY <1>5, TickIInv
<1>6. CASE Restart
  BY <1>6, RestartIInv
<1>7. CASE OtherSaves
  BY <1>7, OtherSavesIInv
<1>8. CASE SetBack
  BY <1>8, SetBackIInv
<1>9. CASE UNCHANGED vars
  <2> USE <1>9 DEF vars, realm, cache, calls, IInv
  <2>1. TypeOK' /\ LockInv' /\ RealmInv'
    BY DEF TypeOK, LockInv, RealmInv
  <2>2. CacheInv' /\ DiskInv'
    BY DEF CacheInv, DiskInv, Genuine
  <2>3. AnswerInv'
    BY DEF AnswerInv, AnswerOK, Genuine, CurrentAt, Hits, Cached, Expired
  <2> QED
    BY <2>1, <2>2, <2>3
<1> QED
  BY <1>1, <1>2, <1>3, <1>4, <1>5, <1>6, <1>7, <1>8, <1>9 DEF Next

(* The invariant holds of every reachable state: the lock is held exactly  *)
(* by the thread that refreshes, and what is cached, on disk and under way *)
(* is of a publication no older than it says.                              *)
THEOREM Invariance == Spec => []IInv
  BY InitIInv, NextIInv, PTL DEF Spec

(* Type correctness.                                                       *)
THEOREM TypeCorrect == Spec => []TypeOK
<1>1. IInv => TypeOK
  BY DEF IInv
<1> QED
  BY <1>1, Invariance, PTL

(* No thread fetches what the cache can answer.                            *)
THEOREM FetchesJustified == Spec => []FetchJustified
<1>1. IInv => FetchJustified
  BY DEF IInv, AnswerInv, AnswerOK, FetchJustified
<1> QED
  BY <1>1, Invariance, PTL
-----------------------------------------------------------------------------
(* How a call can end, and from where: everything the properties of calls  *)
(* need to know of the code.                                               *)
LEMMA Endings ==
  ASSUME IInv, [Next]_vars, NEW t \in Threads, Ending(t)
  PROVE  Hit(t) \/ RefreshFails(t) \/ Return(t)
<1> USE DEF Ending, IInv, TypeOK
<1>1. CASE UNCHANGED vars
  BY <1>1 DEF vars, calls
<1>2. ASSUME NEW u \in Threads, Progress(u)
      PROVE  Hit(t) \/ RefreshFails(t) \/ Return(t)
  <2>1. ASSUME NEW kind, Answer(u, kind) PROVE FALSE
    BY <2>1 DEF Answer, Goto
  <2>2. CASE StartRefresh(u)
    BY <2>2 DEF StartRefresh, Goto
  <2>3. CASE UseStale(u)
    BY <2>3 DEF UseStale, Goto
  <2>4. CASE Adopt(u)
    BY <2>4 DEF Adopt, Goto
  <2>5. CASE OpenForWrite(u)
    BY <2>5 DEF OpenForWrite, Goto
  <2>6. CASE Write(u)
    BY <2>6 DEF Write, Goto
  <2>7. CASE SaveFails(u)
    BY <2>7 DEF SaveFails, Goto
  <2>8. CASE Hit(u)
    BY <2>8 DEF Hit, Ends, Goto
  <2>9. CASE RefreshFails(u)
    BY <2>9 DEF RefreshFails, Ends, Goto
  <2>10. CASE Return(u)
    BY <2>10 DEF Return, Ends, Goto
  <2> QED
    BY <1>2, <2>1, <2>2, <2>3, <2>4, <2>5, <2>6, <2>7, <2>8, <2>9, <2>10 DEF Progress
<1>3. ASSUME NEW u \in Threads, Take(u) PROVE FALSE
  BY <1>3 DEF Take, Goto
<1>4. ASSUME NEW u \in Threads, NEW r \in Requests, Call(u, r) PROVE FALSE
  BY <1>4 DEF Call, Goto
<1>5. ASSUME NEW K \in SUBSET Kids, Rotate(K) PROVE FALSE
  BY <1>5 DEF Rotate, calls
<1>6. CASE Tick
  BY <1>6 DEF Tick, calls
<1>7. CASE Restart
  BY <1>7 DEF Restart
<1>8. CASE OtherSaves
  BY <1>8 DEF OtherSaves, calls
<1>9. CASE SetBack
  BY <1>9 DEF SetBack, calls
<1> QED
  BY <1>1, <1>2, <1>3, <1>4, <1>5, <1>6, <1>7, <1>8, <1>9 DEF Next

(* The keys a call ends with are cached ones.                              *)
LEMMA EndsWithCached ==
  ASSUME IInv, NEW t \in Threads, Hit(t) \/ RefreshFails(t) \/ Return(t),
         outcome'[t].kind = "keys"
  PROVE  /\ outcome'[t].keys = KeysFor(want[t]) /\ Cached(want[t])
         /\ KeysFor(want[t]) \subseteq keys
         /\ Hit(t) \/ Return(t)
<1>1. KeysFor(want[t]) \subseteq keys \/ ~Cached(want[t])
  BY DEF KeysFor, Cached
<1>2. \A kind, K : Ends(t, kind, K) => outcome'[t].kind = kind /\ outcome'[t].keys = K
  BY DEF Ends, IInv, TypeOK
<1>3. CASE Hit(t)
  <2>1. Ends(t, "keys", KeysFor(want[t])) /\ Cached(want[t])
    BY <1>3 DEF Hit, Hits
  <2> QED
    BY <1>1, <1>2, <1>3, <2>1
<1>4. ~RefreshFails(t)
  BY <1>2 DEF RefreshFails
<1>5. CASE Return(t)
  <2>1. ~Ends(t, "JWKSError", {})
    BY <1>2
  <2>2. Ends(t, "keys", KeysFor(want[t])) /\ Cached(want[t])
    BY <1>5, <2>1 DEF Return
  <2> QED
    BY <1>1, <1>2, <1>5, <2>2
<1> QED
  BY <1>3, <1>4, <1>5

(* Whatever is served was published together.                              *)
THEOREM ServedKeysArePublished == Spec => ServedKeysPublished
<1>1. ASSUME IInv, [Next]_vars, NEW t \in Threads,
             Ending(t), outcome'[t].kind = "keys", outcome'[t].keys # {}
      PROVE  keysVer \in 1..Len(pubs) /\ outcome'[t].keys \subseteq pubs[keysVer].keys
  <2>1. outcome'[t].keys \subseteq keys
    BY <1>1, Endings, EndsWithCached
  <2>2. Genuine(keys, keysVer) /\ keysVer \in Nat /\ Len(pubs) \in Nat
    BY <1>1, PubTypes DEF IInv, CacheInv, TypeOK
  <2> QED
    BY <1>1, <2>1, <2>2 DEF Genuine
<1>2. IInv /\ [Next]_vars => [\A t \in Threads :
         Ending(t) /\ outcome'[t].kind = "keys" /\ outcome'[t].keys # {} =>
            /\ keysVer \in 1..Len(pubs)
            /\ outcome'[t].keys \subseteq pubs[keysVer].keys]_vars
  BY <1>1
<1> QED
  BY <1>2, Invariance, PTL DEF Spec, ServedKeysPublished

(* A retired key is served without asking the realm for at most TTL + Lag, *)
(* and the steps the clock was set back by.                                *)
THEOREM RetiredKeysExpire == Spec => RetiredKeyBound
<1>1. ASSUME IInv, [Next]_vars, NEW t \in Threads,
             Ending(t), outcome'[t].kind = "keys", answer[t].kind = "none",
             NEW v \in keysVer+1..Len(pubs)
      PROVE  clock <= pubs[v].at + TTL + Lag + back
  <2>1. Hit(t) \/ Return(t)
    BY <1>1, Endings, EndsWithCached
  <2>2. ~Return(t)
    BY <1>1 DEF Return, IInv, AnswerInv, AnswerOK
  <2>3. clock - fetchedAt <= TTL
    BY <2>1, <2>2, <1>1, TimeAssumption DEF Hit, Hits, Expired, IInv, TypeOK
  <2>4. fetchedAt <= pubs[v].at + Lag + back
    BY <1>1 DEF IInv, CacheInv
  <2>5. pubs[v].at \in Nat /\ clock \in Nat /\ fetchedAt \in Nat /\ back \in Nat
    BY <1>1, PubTypes DEF IInv, TypeOK
  <2> QED
    BY <2>3, <2>4, <2>5, TimeAssumption
<1>2. IInv /\ [Next]_vars => [\A t \in Threads :
         Ending(t) /\ outcome'[t].kind = "keys" /\ answer[t].kind = "none" =>
            \A v \in keysVer+1..Len(pubs) :
                ~(outcome'[t].keys \subseteq pubs[v].keys)
                    => clock <= pubs[v].at + TTL + Lag + back]_vars
  BY <1>1
<1> QED
  BY <1>2, Invariance, PTL DEF Spec, RetiredKeyBound

(* A kid is reported missing only from what the realm answered that call.  *)
THEOREM MissingKidsAreMissing == Spec => NotFoundIsHonest
<1>1. ASSUME IInv, [Next]_vars, NEW t \in Threads,
             Ending(t), outcome'[t].kind = "JWKSError"
      PROVE  answer[t].kind # "none" /\ (answer[t].kind = "ok" => want[t] \notin answer[t].keys)
  <2>1. Hit(t) \/ RefreshFails(t) \/ Return(t)
    BY <1>1, Endings
  <2>2. \A kind, K : Ends(t, kind, K) => outcome'[t].kind = kind
    BY <1>1 DEF Ends, IInv, TypeOK
  <2>3. ~Hit(t)
    BY <1>1, <2>2 DEF Hit
  <2>4. CASE RefreshFails(t)
    BY <2>4 DEF RefreshFails
  <2>5. CASE Return(t)
    <3>1. ~Cached(want[t])
      BY <1>1, <2>2, <2>5 DEF Return
    <3>2. AnswerOK(t) /\ pc[t] = "refreshed"
      BY <1>1, <2>5 DEF Return, IInv, AnswerInv
    <3> QED
      BY <3>1, <3>2 DEF AnswerOK, Cached
  <2> QED
    BY <2>1, <2>3, <2>4, <2>5
<1>2. IInv /\ [Next]_vars => [\A t \in Threads :
         Ending(t) /\ outcome'[t].kind = "JWKSError" =>
            /\ answer[t].kind # "none"
            /\ answer[t].kind = "ok" => want[t] \notin answer[t].keys]_vars
  BY <1>1
<1> QED
  BY <1>2, Invariance, PTL DEF Spec, NotFoundIsHonest

(* An unreachable realm does not fail a call for a key that is cached.     *)
THEOREM OutagesAreServed == Spec => OutageServesCache
<1>1. ASSUME IInv, [Next]_vars, NEW t \in Threads,
             Ending(t), answer[t].kind = "down", want[t] \in keys
      PROVE  outcome'[t].kind = "keys" /\ want[t] \in outcome'[t].keys
  <2>1. Hit(t) \/ RefreshFails(t) \/ Return(t)
    BY <1>1, Endings
  <2>2. \A kind, K : Ends(t, kind, K) => outcome'[t].kind = kind /\ outcome'[t].keys = K
    BY <1>1 DEF Ends, IInv, TypeOK
  <2>3. ~RefreshFails(t)
    BY <1>1 DEF RefreshFails
  <2>4. Ends(t, "keys", KeysFor(want[t]))
    BY <1>1, <2>1, <2>3 DEF Hit, Return, Cached
  <2>5. outcome'[t].kind = "keys" /\ outcome'[t].keys = KeysFor(want[t])
    BY <2>2, <2>4
  <2> QED
    BY <1>1, <2>5 DEF KeysFor
<1>2. IInv /\ [Next]_vars => [\A t \in Threads :
         Ending(t) /\ answer[t].kind = "down" /\ want[t] \in keys
         => outcome'[t].kind = "keys" /\ want[t] \in outcome'[t].keys]_vars
  BY <1>1
<1> QED
  BY <1>2, Invariance, PTL DEF Spec, OutageServesCache

(* Only a restart takes the cache back to an older key set.                *)
THEOREM CacheMovesForward == Spec => NoRollback
<1>1. ASSUME IInv, [Next]_vars, restarts' = restarts PROVE keysVer' >= keysVer
  <2> USE <1>1 DEF IInv, TypeOK
  <2>1. ASSUME NEW t \in Threads, Adopt(t) PROVE keysVer' >= keysVer
    BY <2>1 DEF Adopt, AnswerInv, AnswerOK
  <2>2. CASE Restart
    BY <2>2 DEF Restart
  <2>3. CASE UNCHANGED keysVer
    BY <2>3
  <2>4. UNCHANGED keysVer \/ Restart \/ \E t \in Threads : Adopt(t)
    BY DEF Next, Progress, vars, Hit, StartRefresh, Answer, UseStale, RefreshFails,
           OpenForWrite, Write, SaveFails, Return, Take, Call, Rotate, Tick, SetBack,
           OtherSaves, cache
  <2> QED
    BY <2>1, <2>2, <2>3, <2>4
<1>2. IInv /\ [Next]_vars => [restarts' = restarts => keysVer' >= keysVer]_vars
  BY <1>1
<1> QED
  BY <1>2, Invariance, PTL DEF Spec, NoRollback

(* A refresh never goes back to an earlier point of itself, and so ends in *)
(* at most five steps of its thread, one of which is the end of its GET.   *)
THEOREM TurnsAreBounded == Spec => OneGetPerTurn
<1>1. ASSUME IInv, IInv', [Next]_vars, NEW t \in Threads, lock = t, lock' = t
      PROVE  pc'[t] = pc[t] \/ StepsLeft[pc'[t]] < StepsLeft[pc[t]]
  <2> USE <1>1 DEF IInv, TypeOK
  <2>1. pc[t] \in Refreshing /\ pc'[t] \in Refreshing /\ t # NoThread
    BY ThreadsAssumption DEF LockInv
  <2>2. ASSUME NEW u \in Threads, NEW p, Goto(u, p) PROVE u # t => pc'[t] = pc[t]
    BY <2>2 DEF Goto
  <2>3. ASSUME NEW u \in Threads, Progress(u)
        PROVE  pc'[t] = pc[t] \/ StepsLeft[pc'[t]] < StepsLeft[pc[t]]
    <3>1. CASE u = t
      BY <2>1, <2>3, <3>1
      DEF Progress, Hit, StartRefresh, Answer, UseStale, RefreshFails, Adopt, OpenForWrite,
          Write, SaveFails, Return, Ends, Goto, Refreshing, StepsLeft
    <3>2. CASE u # t
      <4>1. \E p : Goto(u, p)
        BY <2>3 DEF Progress, Hit, StartRefresh, Answer, UseStale, RefreshFails, Adopt,
                    OpenForWrite, Write, SaveFails, Return, Ends
      <4> QED
        BY <2>2, <3>2, <4>1
    <3> QED
      BY <3>1, <3>2
  <2>4. ASSUME NEW u \in Threads, Take(u) \/ \E r \in Requests : Call(u, r)
        PROVE  pc'[t] = pc[t]
    BY <2>1, <2>4 DEF Take, Call, Goto, Refreshing
  <2>5. CASE Restart
    BY <2>1, <2>5 DEF Restart
  <2>6. CASE UNCHANGED pc
    BY <2>6
  <2> QED
    BY <2>3, <2>4, <2>5, <2>6 DEF Next, Rotate, Tick, SetBack, OtherSaves, calls, vars
<1>2. IInv /\ IInv' /\ [Next]_vars =>
        [\A t \in Threads : lock = t /\ lock' = t =>
           pc'[t] = pc[t] \/ StepsLeft[pc'[t]] < StepsLeft[pc[t]]]_vars
  BY <1>1
<1> QED
  BY <1>2, Invariance, PTL DEF Spec, OneGetPerTurn
=============================================================================
