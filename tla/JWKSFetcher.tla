---------------------------- MODULE JWKSFetcher ----------------------------
(***************************************************************************)
(* The key cache of inventia_spoke_sdk/jwks.py, shared by the threads of *)
(* one spoke process, against a Keycloak realm that rotates its keys, a  *)
(* network that fails, a wall clock, and a disk copy that survives the   *)
(* process.                                                              *)
(*                                                                       *)
(* A key is identified with its kid.  `pubs' is the history of key sets  *)
(* the realm has published, the last one being current; `keysVer' is a   *)
(* history variable that remembers which of them the cached keys came    *)
(* from, and no guard reads it.                                          *)
(***************************************************************************)
EXTENDS Naturals, Sequences

CONSTANTS
    Kids,         \* key ids
    Threads,      \* threads that share the fetcher
    NoThread,     \* the lock is free
    AllKeys,      \* the request of all_keys(), as opposed to get_key(kid)
    TTL,          \* ttl_seconds
    Lag,          \* most time from the realm's answering to the answer's use
    UseDisk,      \* a cache_path was given
    SharedDisk,   \* to other processes as well, the workers of one pod
    AnswerKinds,  \* what a GET may end in, a subset of Exchanges
    MaxClock, MaxPubs, MaxRestarts, MaxBack   \* bounds of the exploration

(***************************************************************************)
(* How a GET of the JWKS ends: a body with keys; a failure _refresh      *)
(* catches (transport, status or JSON syntax); a JSON object without any *)
(* usable key; one whose "keys" is not an array; or a JSON text that is no*)
(* object, or an array with an entry "in" does not apply to, on which the*)
(* parsing itself raises.                                                *)
(***************************************************************************)
Exchanges == {"ok", "down", "empty", "badkeys", "garbage"}

ASSUME KidsAssumption == Kids # {} /\ AllKeys \notin Kids
ASSUME ThreadsAssumption == NoThread \notin Threads
ASSUME TimeAssumption == TTL \in Nat /\ Lag \in Nat
ASSUME OptionsAssumption ==
    /\ UseDisk \in BOOLEAN /\ SharedDisk \in BOOLEAN /\ (SharedDisk => UseDisk)
    /\ AnswerKinds \subseteq Exchanges
ASSUME BoundsAssumption == /\ MaxClock \in Nat /\ MaxPubs \in Nat
                           /\ MaxRestarts \in Nat /\ MaxBack \in Nat

VARIABLES
    clock,       \* the time
    back,        \* how far time.time() has been set back
    pubs,        \* what the realm has published, and when
    keys,        \* _keys
    keysVer,     \* the publication _keys came from (history variable)
    fetchedAt,   \* _fetched_at, by the clock as it is set now
    lock,        \* the holder of _lock
    disk,        \* the file at cache_path
    pc,          \* where each thread is in get_key / all_keys
    want,        \* what it asked for
    answer,      \* how its GET ended, "none" before it has
    outcome,     \* what its call returned or raised
    restarts

realm == <<clock, back, pubs>>
cache == <<keys, keysVer, fetchedAt>>
calls == <<pc, want, answer, outcome>>
vars  == <<realm, cache, lock, disk, calls, restarts>>
-----------------------------------------------------------------------------
Requests     == Kids \cup {AllKeys}
Publications == [keys : SUBSET Kids, at : Nat]
NoAnswer     == [kind |-> "none", keys |-> {}, ver |-> 0, at |-> 0]
Pending      == [kind |-> "none", keys |-> {}]
EmptyDisk    == [state |-> "absent", keys |-> {}, ver |-> 0]
Torn         == [disk EXCEPT !.state = "torn", !.keys = {}]

(* The program counters at which a thread is inside `with self._lock'.   *)
Refreshing   == {"fetching", "answered", "saving", "writing", "refreshed"}

TypeOK ==
    /\ clock \in Nat /\ back \in Nat
    /\ pubs \in Seq(Publications)
    /\ keys \subseteq Kids
    /\ keysVer \in Nat
    /\ fetchedAt \in Nat
    /\ lock \in Threads \cup {NoThread}
    /\ disk \in [state : {"absent", "torn", "good"}, keys : SUBSET Kids, ver : Nat]
    /\ pc \in [Threads -> {"idle", "waiting", "returned"} \cup Refreshing]
    /\ want \in [Threads -> Requests]
    /\ answer \in [Threads -> [kind : Exchanges \cup {"none"}, keys : SUBSET Kids,
                               ver : Nat, at : Nat]]
    /\ outcome \in [Threads -> [kind : {"none", "keys", "JWKSError", "OtherError"},
                                keys : SUBSET Kids]]
    /\ restarts \in Nat

(* Times start late enough for `_fetched_at = 0.0' to mean expired.      *)
Init ==
    /\ clock = TTL + 1 /\ back = 0
    /\ \E K \in (SUBSET Kids) \ {{}} : pubs = <<[keys |-> K, at |-> 0]>>
    /\ keys = {} /\ keysVer = 0 /\ fetchedAt = 0
    /\ lock = NoThread
    /\ disk = EmptyDisk
    /\ pc = [t \in Threads |-> "idle"]
    /\ want = [t \in Threads |-> AllKeys]
    /\ answer = [t \in Threads |-> NoAnswer]
    /\ outcome = [t \in Threads |-> Pending]
    /\ restarts = 0
-----------------------------------------------------------------------------
(* Plausible faults: each definition presented as "a fault of X" can stand*)
(* for X, and is there to see that the properties would notice.          *)

(* A fault of Expired: one more unit of the TTL.                         *)
ExpiredLate == clock - fetchedAt > TTL + 1

Expired == clock - fetchedAt > TTL

Cached(r) == r = AllKeys \/ r \in keys

(* The condition on which a call is answered without the network.        *)
Hits(r) == Cached(r) /\ ~Expired

KeysFor(r) == IF r = AllKeys THEN keys ELSE {r}

Goto(t, p) == pc' = [pc EXCEPT ![t] = p]

(* The end of a call: what it returns or raises, and the lock let go of. *)
Ends(t, kind, K) ==
    /\ Goto(t, "returned")
    /\ outcome' = [outcome EXCEPT ![t] = [kind |-> kind, keys |-> K]]
    /\ answer' = [answer EXCEPT ![t] = NoAnswer]
    /\ lock' = NoThread
-----------------------------------------------------------------------------
(* A fault of Hit: within the TTL an unknown kid is refused, not looked up.*)
HitOrMiss(t) ==
    /\ pc[t] = "waiting" /\ lock = NoThread /\ ~Expired
    /\ IF Cached(want[t]) THEN Ends(t, "keys", KeysFor(want[t]))
                          ELSE Ends(t, "JWKSError", {})
    /\ UNCHANGED <<realm, cache, disk, want, restarts>>

(* A fault of StartRefresh: the lock guards the check, not the GET.      *)
FetchUnlocked(t) ==
    /\ pc[t] = "waiting" /\ lock = NoThread /\ ~Hits(want[t])
    /\ Goto(t, "fetching")
    /\ UNCHANGED <<realm, cache, lock, disk, want, answer, outcome, restarts>>

(* A fault of UseStale: falling back on old keys renews them.            *)
RenewStale(t) ==
    /\ pc[t] = "answered" /\ answer[t].kind = "down" /\ keys # {}
    /\ fetchedAt' = clock
    /\ Goto(t, "refreshed")
    /\ UNCHANGED <<realm, keys, keysVer, lock, disk, want, answer, outcome, restarts>>

(* A fault of RefreshFails: there is no falling back on old keys.        *)
NoFallback(t) ==
    /\ pc[t] = "answered" /\ answer[t].kind \in {"down", "badkeys", "garbage"}
    /\ Ends(t, "JWKSError", {})
    /\ UNCHANGED <<realm, cache, disk, want, restarts>>

(* A fault of UseStale: it tries again instead, with the lock held.      *)
RetryGet(t) ==
    /\ pc[t] = "answered" /\ answer[t].kind = "down"
    /\ Goto(t, "fetching")
    /\ answer' = [answer EXCEPT ![t] = NoAnswer]
    /\ UNCHANGED <<realm, cache, lock, disk, want, outcome, restarts>>

(* A fault of Adopt: the new keys are added to the old ones.             *)
AdoptMerged(t) ==
    /\ pc[t] = "answered" /\ answer[t].kind \in {"ok", "empty"}
    /\ keys' = keys \cup answer[t].keys
    /\ keysVer' = answer[t].ver /\ fetchedAt' = clock
    /\ Goto(t, IF UseDisk THEN "saving" ELSE "refreshed")
    /\ UNCHANGED <<realm, lock, disk, want, answer, outcome, restarts>>

(* A fault of LoadedAt: the disk copy counts as fetched when it is read. *)
LoadedNow == clock
-----------------------------------------------------------------------------
(* The age a new fetcher gives what it has read from disk.               *)
LoadedAt == 0

(* A thread calls get_key(r), or all_keys(), and comes to the lock.      *)
Call(t, r) ==
    /\ pc[t] = "idle"
    /\ Goto(t, "waiting")
    /\ want' = [want EXCEPT ![t] = r]
    /\ UNCHANGED <<realm, cache, lock, disk, answer, outcome, restarts>>

(* It gets the lock and finds what it wants, fresh.                      *)
Hit(t) ==
    /\ pc[t] = "waiting" /\ lock = NoThread
    /\ Hits(want[t])
    /\ Ends(t, "keys", KeysFor(want[t]))
    /\ UNCHANGED <<realm, cache, disk, want, restarts>>

(* It gets the lock, does not, and sends a GET while it holds the lock.  *)
StartRefresh(t) ==
    /\ pc[t] = "waiting" /\ lock = NoThread
    /\ ~Hits(want[t])
    /\ lock' = t
    /\ Goto(t, "fetching")
    /\ UNCHANGED <<realm, cache, disk, want, answer, outcome, restarts>>

(* The realm answers, or the exchange fails or times out.                *)
Answer(t, kind) ==
    /\ pc[t] = "fetching"
    /\ Goto(t, "answered")
    /\ answer' = [answer EXCEPT ![t] =
                    [kind |-> kind,
                     keys |-> IF kind = "ok" THEN pubs[Len(pubs)].keys ELSE {},
                     ver |-> Len(pubs), at |-> clock]]
    /\ UNCHANGED <<realm, cache, lock, disk, want, outcome, restarts>>

(* A caught failure, with keys from before to fall back on.              *)
UseStale(t) ==
    /\ pc[t] = "answered" /\ answer[t].kind = "down"
    /\ keys # {}
    /\ Goto(t, "refreshed")
    /\ UNCHANGED <<realm, cache, lock, disk, want, answer, outcome, restarts>>

(* The refresh raises: nothing is cached, or the body cannot be used; an *)
(* AttributeError or TypeError of the parsing is no JWKSError.           *)
RefreshFails(t) ==
    /\ pc[t] = "answered"
    /\ \/ answer[t].kind = "down" /\ keys = {} /\ Ends(t, "JWKSError", {})
       \/ answer[t].kind = "badkeys" /\ Ends(t, "JWKSError", {})
       \/ answer[t].kind = "garbage" /\ Ends(t, "OtherError", {})
    /\ UNCHANGED <<realm, cache, disk, want, restarts>>

(* The body replaces the cache, even when there is no usable key in it.  *)
Adopt(t) ==
    /\ pc[t] = "answered" /\ answer[t].kind \in {"ok", "empty"}
    /\ keys' = answer[t].keys
    /\ keysVer' = answer[t].ver
    /\ fetchedAt' = clock
    /\ Goto(t, IF UseDisk THEN "saving" ELSE "refreshed")
    /\ UNCHANGED <<realm, lock, disk, want, answer, outcome, restarts>>

(* write_text truncates the file, ...                                    *)
OpenForWrite(t) ==
    /\ pc[t] = "saving"
    /\ disk' = Torn
    /\ Goto(t, "writing")
    /\ UNCHANGED <<realm, cache, lock, want, answer, outcome, restarts>>

(* ... and then writes it, over what another process has written since,  *)
(* of which a longer text's end may remain.                              *)
Write(t) ==
    /\ pc[t] = "writing"
    /\ \/ disk' = [state |-> "good", keys |-> answer[t].keys, ver |-> answer[t].ver]
       \/ SharedDisk /\ disk.state = "good" /\ disk' = Torn
    /\ Goto(t, "refreshed")
    /\ UNCHANGED <<realm, cache, lock, want, answer, outcome, restarts>>

(* An OSError on the way is logged and swallowed; what it left on disk   *)
(* stays.                                                                *)
SaveFails(t) ==
    /\ pc[t] \in {"saving", "writing"}
    /\ Goto(t, "refreshed")
    /\ UNCHANGED <<realm, cache, lock, disk, want, answer, outcome, restarts>>

(* After the refresh the kid is there or it is not.                      *)
Return(t) ==
    /\ pc[t] = "refreshed"
    /\ \/ Cached(want[t]) /\ Ends(t, "keys", KeysFor(want[t]))
       \/ ~Cached(want[t]) /\ Ends(t, "JWKSError", {})
    /\ UNCHANGED <<realm, cache, disk, want, restarts>>

(* The caller goes on with the result; the call is forgotten.            *)
Take(t) ==
    /\ pc[t] = "returned"
    /\ Goto(t, "idle")
    /\ want' = [want EXCEPT ![t] = AllKeys]
    /\ outcome' = [outcome EXCEPT ![t] = Pending]
    /\ UNCHANGED <<realm, cache, lock, disk, answer, restarts>>
-----------------------------------------------------------------------------
(* The realm's administrator rotates its keys.                           *)
Rotate(K) ==
    /\ Len(pubs) < MaxPubs
    /\ K # {} /\ K # pubs[Len(pubs)].keys
    /\ pubs' = Append(pubs, [keys |-> K, at |-> clock])
    /\ UNCHANGED <<clock, back, cache, lock, disk, calls, restarts>>

(* Time passes, but an answer does not wait for its use longer than Lag. *)
Tick ==
    /\ clock < MaxClock
    /\ \A t \in Threads : pc[t] = "answered" => clock < answer[t].at + Lag
    /\ clock' = clock + 1
    /\ UNCHANGED <<back, pubs, cache, lock, disk, calls, restarts>>

(* The clock of the machine is set back: `_fetched_at' is later by it than *)
(* it was.  Nothing else is kept that was read from it, and 0.0 is older *)
(* than any clock shows.                                                 *)
SetBack ==
    /\ back < MaxBack
    /\ back' = back + 1
    /\ fetchedAt' = IF fetchedAt = 0 THEN 0 ELSE fetchedAt + 1
    /\ UNCHANGED <<clock, pubs, keys, keysVer, lock, disk, calls, restarts>>

(* Another process saves what it has fetched, perhaps long ago, to the   *)
(* file they share, which no lock guards; a body without usable keys, too.*)
OtherSaves ==
    /\ SharedDisk
    /\ \/ disk' = Torn
       \/ \E v \in 1..Len(pubs) : \E K \in {pubs[v].keys, {}} :
             disk' = [state |-> "good", keys |-> K, ver |-> v]
    /\ UNCHANGED <<realm, cache, lock, calls, restarts>>

(* The process dies at any point and a new one constructs its fetcher,   *)
(* which reads the disk copy and does not trust its age.                 *)
Restart ==
    /\ restarts < MaxRestarts
    /\ restarts' = restarts + 1
    /\ fetchedAt' = LoadedAt
    /\ \/ /\ UseDisk /\ disk.state = "good"
          /\ keys' = disk.keys /\ keysVer' = disk.ver
       \/ /\ ~(UseDisk /\ disk.state = "good")
          /\ keys' = {} /\ keysVer' = 0
    /\ lock' = NoThread
    /\ pc' = [t \in Threads |-> "idle"]
    /\ want' = [t \in Threads |-> AllKeys]
    /\ answer' = [t \in Threads |-> NoAnswer]
    /\ outcome' = [t \in Threads |-> Pending]
    /\ UNCHANGED <<realm, disk>>

(* The steps of the code between a thread's coming to the lock and its   *)
(* letting go of it.                                                     *)
Progress(t) ==
    \/ Hit(t) \/ StartRefresh(t)
    \/ \E kind \in AnswerKinds : Answer(t, kind)
    \/ UseStale(t) \/ RefreshFails(t) \/ Adopt(t)
    \/ OpenForWrite(t) \/ Write(t) \/ SaveFails(t)
    \/ Return(t)

Next ==
    \/ \E t \in Threads : Progress(t) \/ Take(t) \/ \E r \in Requests : Call(t, r)
    \/ \E K \in SUBSET Kids : Rotate(K)
    \/ Tick
    \/ SetBack
    \/ OtherSaves
    \/ Restart

Spec == Init /\ [][Next]_vars

(* A thread that can run does, and a GET ends (timeout_seconds); nothing *)
(* is assumed of callers, of the realm or of who gets a contended lock.  *)
FairSpec == Spec /\ \A t \in Threads : WF_vars(Progress(t))
=============================================================================
