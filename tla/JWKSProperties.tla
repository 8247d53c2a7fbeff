-------------------------- MODULE JWKSProperties --------------------------
(***************************************************************************)
(* What makes the key cache of JWKSFetcher correct, what the documentation *)
(* says of it and the code does not do, and the invariant behind it all.   *)
(***************************************************************************)
EXTENDS JWKSFetcher

(* Properties of calls are about the step in which a call ends, at which *)
(* `answer' still says how its GET went, if it sent one.                 *)
Ending(t) == pc[t] # "returned" /\ pc'[t] = "returned"

(* Whatever is returned, from memory, network or disk, was all published *)
(* together: no merge of two rotations, nothing of a torn file.          *)
ServedKeysPublished ==
    [][\A t \in Threads :
         Ending(t) /\ outcome'[t].kind = "keys" /\ outcome'[t].keys # {} =>
            /\ keysVer \in 1..Len(pubs)
            /\ outcome'[t].keys \subseteq pubs[keysVer].keys]_vars

(* A key the realm has retired is served from memory for at most the TTL,*)
(* the time an answer was under way, and what the clock has been set back*)
(* by; a call that outlives this has asked the realm first.              *)
RetiredKeyBound ==
    [][\A t \in Threads :
         Ending(t) /\ outcome'[t].kind = "keys" /\ answer[t].kind = "none" =>
            \A v \in keysVer+1..Len(pubs) :
                ~(outcome'[t].keys \subseteq pubs[v].keys)
                    => clock <= pubs[v].at + TTL + Lag + back]_vars

(* A call that fails has asked the realm itself, and when the realm      *)
(* answered "kid not found" is true of that answer: a thread that waited *)
(* for another's refresh does not judge by that one, nor by what a third *)
(* has put in the cache since.                                           *)
NotFoundIsHonest ==
    [][\A t \in Threads :
         Ending(t) /\ outcome'[t].kind = "JWKSError" =>
            /\ answer[t].kind # "none"
            /\ answer[t].kind = "ok" => want[t] \notin answer[t].keys]_vars

(* No GET is sent for what another thread has just fetched: threads that *)
(* waited for its refresh look at the cache again.  (A clock set back may *)
(* make a cache fresh again that had expired.)                           *)
FetchJustified ==
    \A t \in Threads :
        pc[t] = "fetching" /\ Cached(want[t]) => fetchedAt + TTL < clock + back

(* When the realm cannot be reached, a call for a key that is cached,    *)
(* however old, never fails.                                             *)
OutageServesCache ==
    [][\A t \in Threads :
         Ending(t) /\ answer[t].kind = "down" /\ want[t] \in keys
         => outcome'[t].kind = "keys" /\ want[t] \in outcome'[t].keys]_vars

(* While the process lives the cache never goes back to an older key set,*)
(* however the refreshes of several threads interleave.                  *)
NoRollback ==
    [][restarts' = restarts => keysVer' >= keysVer]_vars

(* The thread that holds the lock comes closer with each of its steps to *)
(* letting go of it, through one GET at most: in an outage a caller waits*)
(* for one timeout of each that gets the lock before it, and for its own.*)
StepsLeft ==
    [fetching |-> 5, answered |-> 4, saving |-> 3, writing |-> 2, refreshed |-> 1]
OneGetPerTurn ==
    [][\A t \in Threads : lock = t /\ lock' = t =>
         pc'[t] = pc[t] \/ StepsLeft[pc'[t]] < StepsLeft[pc[t]]]_vars

(* A refresh, however it ends, lets go of the lock.                      *)
LockReleased ==
    \A t \in Threads : lock = t ~> lock # t

(* While calls wait some call ends (or the process dies): the threads    *)
(* never all wait on one another.                                        *)
SomeoneReturns ==
    (\E t \in Threads : pc[t] = "waiting")
        ~> \/ \E t \in Threads : pc[t] = "returned"
           \/ \A t \in Threads : pc[t] = "idle"
-----------------------------------------------------------------------------
(* Two statements of the documentation that the code does not live up to;*)
(* each has a run that refutes it.                                       *)

(* CHANGELOG.md:103, "the disk cache survives a restart of the spoke's   *)
(* pod": a process that starts after a key set has been saved has keys.  *)
SavedCacheSurvivesRestart ==
    [][restarts' # restarts /\ disk.ver # 0 => keys' # {}]_vars

(* CHANGELOG.md:77, "graceful degradation when the refresh fails (uses the*)
(* stale cache if there is one)": a call whose refresh fails is served the*)
(* key it wants if that is cached.                                       *)
FailedRefreshUsesStale ==
    [][\A t \in Threads :
         Ending(t) /\ answer[t].kind \notin {"none", "ok"} /\ want[t] \in keys
            => outcome'[t].kind = "keys"]_vars
-----------------------------------------------------------------------------
(* The inductive invariant behind the safety properties.                 *)

(* The lock is held exactly by the thread that refreshes.                *)
LockInv == \A t \in Threads : pc[t] \in Refreshing <=> lock = t

RealmInv ==
    /\ clock > TTL
    /\ Len(pubs) > 0
    /\ \A v \in 1..Len(pubs) : pubs[v].at <= clock

(* Keys in hand are of the publication they claim to be of.              *)
Genuine(K, v) == v <= Len(pubs) /\ (K # {} => v > 0 /\ K = pubs[v].keys)

(* What was learnt at time a of publication v was not superseded before a.*)
CurrentAt(v, a) == \A w \in v+1..Len(pubs) : a <= pubs[w].at

CacheInv ==
    /\ Genuine(keys, keysVer)
    /\ fetchedAt <= clock + back
    /\ \A w \in keysVer+1..Len(pubs) : fetchedAt <= pubs[w].at + Lag + back

DiskInv ==
    /\ Genuine(disk.keys, disk.ver)
    /\ disk.state = "good" => UseDisk

(* What each stage of a refresh knows of the answer it works on.           *)
AnswerOK(t) ==
    LET a == answer[t] IN
    /\ pc[t] \in {"idle", "waiting", "fetching", "returned"} => a = NoAnswer
    /\ pc[t] # "returned" => outcome[t] = Pending
    /\ pc[t] = "fetching" => (Cached(want[t]) => fetchedAt + TTL < clock + back)
    /\ pc[t] = "answered" =>
          /\ a.kind # "none"
          /\ Genuine(a.keys, a.ver)
          /\ 0 < a.ver /\ keysVer <= a.ver
          /\ a.at <= clock /\ clock <= a.at + Lag
          /\ CurrentAt(a.ver, a.at)
    /\ pc[t] \in {"saving", "writing"} => UseDisk
    /\ pc[t] \in {"saving", "writing", "refreshed"} =>
          \/ a.kind \in {"ok", "empty"} /\ a.keys = keys /\ a.ver = keysVer
          \/ a.kind = "down" /\ keys # {} /\ pc[t] = "refreshed"

AnswerInv == \A t \in Threads : AnswerOK(t)

IInv == TypeOK /\ LockInv /\ RealmInv /\ CacheInv /\ DiskInv /\ AnswerInv
=============================================================================
