----------------------- MODULE JWKSRefinementProofs -----------------------
(***************************************************************************)
(* JWKSFetcher implements KeyCache for any number of threads, keys,        *)
(* rotations and restarts: each action is one of the abstract cache's, or  *)
(* invisible to its callers.                                               *)
(***************************************************************************)
EXTENDS JWKSRefinement, JWKSFetcherProofs

(* The abstract variables, as functions of the concrete ones.              *)
Held   == [keys |-> keys, ver |-> keysVer]
Phases == [t \in Threads |-> PhaseOf(t)]
Seens  == [t \in Threads |-> SeenBy(t)]
Heards == [t \in Threads |-> HeardBy(t)]
Givens == [t \in Threads |-> outcome[t].keys]
Shown  == <<clock, back, pubs, Held, fetchedAt, Phases, want, Seens, Heards, Givens>>

(* The step of a thread in its call moves only its own part of the         *)
(* abstract state.                                                         *)
LEMMA OwnPart ==
  ASSUME NEW t \in Threads, NEW p, TypeOK, TypeOK', Goto(t, p),
         \A s \in Threads \ {t} : answer'[s] = answer[s] /\ outcome'[s] = outcome[s]
  PROVE  /\ Phases' = [Phases EXCEPT ![t] = PhaseOf(t)']
         /\ Seens' = [Seens EXCEPT ![t] = SeenBy(t)']
         /\ Heards' = [Heards EXCEPT ![t] = HeardBy(t)']
         /\ Givens' = [Givens EXCEPT ![t] = outcome'[t].keys]
<1>1. \A s \in Threads \ {t} : pc'[s] = pc[s]
  BY DEF Goto, TypeOK
<1>2. \A s \in Threads \ {t} :
        /\ PhaseOf(s)' = PhaseOf(s) /\ SeenBy(s)' = SeenBy(s) /\ HeardBy(s)' = HeardBy(s)
        /\ outcome'[s].keys = outcome[s].keys
  BY <1>1 DEF PhaseOf, SeenBy, HeardBy, HeardBy
<1>3. Phases' = [Phases EXCEPT ![t] = PhaseOf(t)']
  BY <1>2, Zenon DEF Phases
<1>4. Seens' = [Seens EXCEPT ![t] = SeenBy(t)']
  BY <1>2, Zenon DEF Seens
<1>5. Heards' = [Heards EXCEPT ![t] = HeardBy(t)']
  BY <1>2, Zenon DEF Heards
<1>6. Givens' = [Givens EXCEPT ![t] = outcome'[t].keys]
  BY <1>2 DEF Givens
<1> QED
  BY <1>3, <1>4, <1>5, <1>6

(* A thread that goes on with its call, learning nothing and returning     *)
(* nothing.                                                                *)
LEMMA Invisible ==
  ASSUME NEW t \in Threads, NEW p, TypeOK, TypeOK', Goto(t, p),
         UNCHANGED <<realm, cache, want, answer, outcome>>,
         PhaseOf(t)' = PhaseOf(t), HeardBy(t)' = HeardBy(t)
  PROVE  UNCHANGED Shown
<1>1. SeenBy(t)' = SeenBy(t) /\ outcome'[t].keys = outcome[t].keys
  BY DEF SeenBy
<1>2. /\ Phases' = [Phases EXCEPT ![t] = PhaseOf(t)']
      /\ Seens' = [Seens EXCEPT ![t] = SeenBy(t)']
      /\ Heards' = [Heards EXCEPT ![t] = HeardBy(t)']
      /\ Givens' = [Givens EXCEPT ![t] = outcome'[t].keys]
  BY OwnPart
<1> QED
  BY <1>1, <1>2 DEF Shown, Phases, Seens, Heards, Givens, Held, realm, cache

(* The steps of a refresh that its callers do not notice.                  *)
LEMMA SilentSteps ==
  ASSUME IInv, IInv', NEW t \in Threads,
         \/ StartRefresh(t) \/ UseStale(t) \/ OpenForWrite(t)
         \/ Write(t) \/ SaveFails(t)
  PROVE  UNCHANGED Shown
<1> USE DEF IInv
<1>1. AnswerOK(t)
  BY DEF AnswerInv
<1>2. \E p : Goto(t, p)
  BY DEF StartRefresh, UseStale, OpenForWrite, Write, SaveFails
<1>3. UNCHANGED <<realm, cache, want, answer, outcome>>
  BY DEF StartRefresh, UseStale, OpenForWrite, Write, SaveFails
<1>4. PhaseOf(t)' = PhaseOf(t) /\ HeardBy(t)' = HeardBy(t)
  <2> USE <1>3 DEF PhaseOf, HeardBy, Goto, TypeOK
  <2>1. CASE StartRefresh(t)
    BY <2>1 DEF StartRefresh
  <2>2. CASE UseStale(t)
    BY <2>2 DEF UseStale, Usable
  <2>3. CASE OpenForWrite(t)
    BY <2>3 DEF OpenForWrite
  <2>4. CASE Write(t)
    BY <2>4 DEF Write
  <2>5. CASE SaveFails(t)
    BY <2>5 DEF SaveFails
  <2> QED
    BY <2>1, <2>2, <2>3, <2>4, <2>5
<1> QED
  BY <1>2, <1>3, <1>4, Invisible

(* A call begins.                                                          *)
LEMMA CallAsks ==
  ASSUME IInv, IInv', NEW t \in Threads, NEW r \in Requests, Call(t, r)
  PROVE  Abstract!Ask(t, r)
<1>1. /\ PhaseOf(t) = "none" /\ PhaseOf(t)' = "asked"
      /\ SeenBy(t)' = SeenBy(t) /\ HeardBy(t)' = HeardBy(t)
  BY DEF Call, PhaseOf, SeenBy, HeardBy, Goto, IInv, TypeOK
<1>2. /\ Phases' = [Phases EXCEPT ![t] = PhaseOf(t)']
      /\ Seens' = [Seens EXCEPT ![t] = SeenBy(t)']
      /\ Heards' = [Heards EXCEPT ![t] = HeardBy(t)']
      /\ Givens' = [Givens EXCEPT ![t] = outcome'[t].keys]
  BY OwnPart DEF Call, IInv
<1> QED
  BY <1>1, <1>2 DEF Call, Abstract!Ask, Abstract!Becomes, Phases, Seens, Heards, Givens, realm, cache

(* A GET ends.                                                             *)
LEMMA AnswerConsults ==
  ASSUME IInv, IInv', NEW t \in Threads, NEW kind \in AnswerKinds, Answer(t, kind)
  PROVE  Abstract!Consult(t)
<1>1. /\ PhaseOf(t) = "asked" /\ PhaseOf(t)' = "consulted"
      /\ SeenBy(t)' \in {0, Len(pubs)}
      /\ HeardBy(t)' = IF SeenBy(t)' = 0 THEN 0 ELSE clock
  BY DEF Answer, PhaseOf, SeenBy, HeardBy, Goto, IInv, TypeOK, RealmInv
<1>2. /\ Phases' = [Phases EXCEPT ![t] = PhaseOf(t)']
      /\ Seens' = [Seens EXCEPT ![t] = SeenBy(t)']
      /\ Heards' = [Heards EXCEPT ![t] = HeardBy(t)']
      /\ Givens' = [Givens EXCEPT ![t] = outcome'[t].keys]
  BY OwnPart DEF Answer, IInv, TypeOK
<1> QED
  BY <1>1, <1>2 DEF Answer, Abstract!Consult, Abstract!Becomes, Phases, Seens, Heards, Givens, realm, cache

(* An answer is adopted: it is of the publication consulted, which is no   *)
(* older than the one held.                                                *)
LEMMA AdoptLearns ==
  ASSUME IInv, IInv', NEW t \in Threads, Adopt(t)
  PROVE  Abstract!Learn(t)
<1>1. AnswerOK(t) /\ AnswerOK(t)'
  BY DEF AnswerInv, IInv
<1>2. /\ PhaseOf(t) = "consulted" /\ PhaseOf(t)' = "learnt"
      /\ SeenBy(t)' = SeenBy(t) /\ SeenBy(t) = answer[t].ver /\ HeardBy(t)' = 0
  BY DEF Adopt, PhaseOf, SeenBy, HeardBy, Usable, Goto, IInv, TypeOK
<1>3. /\ answer[t].ver # 0 /\ answer[t].ver >= keysVer
      /\ answer[t].keys \in Abstract!SetsOf(answer[t].ver)
  BY <1>1 DEF Adopt, AnswerOK, Genuine, Abstract!SetsOf, IInv, TypeOK
<1>4. /\ Phases' = [Phases EXCEPT ![t] = PhaseOf(t)']
      /\ Seens' = [Seens EXCEPT ![t] = SeenBy(t)']
      /\ Heards' = [Heards EXCEPT ![t] = HeardBy(t)']
      /\ Givens' = [Givens EXCEPT ![t] = outcome'[t].keys]
  BY OwnPart DEF Adopt, IInv
<1>5. \A s \in Threads : PhaseOf(s) # "learnt"
  <2>1. \A s \in Threads \ {t} : pc[s] \notin Refreshing
    BY DEF Adopt, Refreshing, IInv, LockInv
  <2>2. \A s \in Threads \ {t} : PhaseOf(s) # "learnt"
    BY <2>1 DEF PhaseOf, Refreshing, IInv, TypeOK
  <2> QED
    BY <1>2, <2>2
<1> QED
  BY <1>1, <1>2, <1>3, <1>4, <1>5
  DEF Adopt, Abstract!Learn, Abstract!Becomes, Phases, Seens, Heards, Givens, realm

(* How the ends of calls look from outside.                                *)
LEMMA EndsParts ==
  ASSUME IInv, IInv', NEW t \in Threads, NEW kind, NEW K, Ends(t, kind, K), HeardBy(t) = 0
  PROVE  /\ Phases' = [Phases EXCEPT ![t] = IF kind = "keys" THEN "served" ELSE "refused"]
         /\ Seens' = [Seens EXCEPT ![t] = 0]
         /\ Heards' = Heards
         /\ Givens' = [Givens EXCEPT ![t] = K]
<1> USE DEF IInv
<1>1. /\ Goto(t, "returned")
      /\ \A s \in Threads \ {t} : answer'[s] = answer[s] /\ outcome'[s] = outcome[s]
      /\ outcome'[t].kind = kind /\ outcome'[t].keys = K /\ answer'[t] = NoAnswer
      /\ pc'[t] = "returned"
  BY DEF Ends, Goto, TypeOK
<1>2. /\ PhaseOf(t)' = IF kind = "keys" THEN "served" ELSE "refused"
      /\ SeenBy(t)' = 0 /\ HeardBy(t)' = 0
  BY <1>1 DEF PhaseOf, SeenBy, HeardBy, NoAnswer, Usable
<1>3. /\ Phases' = [Phases EXCEPT ![t] = PhaseOf(t)']
      /\ Seens' = [Seens EXCEPT ![t] = SeenBy(t)']
      /\ Heards' = [Heards EXCEPT ![t] = HeardBy(t)']
      /\ Givens' = [Givens EXCEPT ![t] = outcome'[t].keys]
  BY <1>1, OwnPart
<1>4. Heards' = Heards
  BY <1>2, <1>3 DEF Heards
<1> QED
  BY <1>1, <1>2, <1>3, <1>4

(* A hit is a service within the TTL.                                      *)
LEMMA HitServes ==
  ASSUME IInv, IInv', NEW t \in Threads, Hit(t)
  PROVE  Abstract!Serve(t)
<1>1. Ends(t, "keys", KeysFor(want[t])) /\ Cached(want[t])
  BY DEF Hit, Hits
<1>3. PhaseOf(t) = "asked" /\ HeardBy(t) = 0 /\ clock <= fetchedAt + TTL
  BY TimeAssumption DEF Hit, PhaseOf, HeardBy, Hits, Expired, IInv, TypeOK
<1>4. /\ Phases' = [Phases EXCEPT ![t] = "served"]
      /\ Seens' = [Seens EXCEPT ![t] = 0]
      /\ Heards' = Heards
      /\ Givens' = [Givens EXCEPT ![t] = KeysFor(want[t])]
  BY <1>1, <1>3, EndsParts
<1>5. UNCHANGED <<clock, back, pubs, keys, keysVer, fetchedAt, want>>
  BY DEF Hit, realm, cache
<1> QED
  BY <1>1, <1>3, <1>4, <1>5
  DEF Abstract!Serve, Abstract!Becomes, Phases, Seens, Heards, Givens, KeysFor, Cached

(* A refresh that fails refuses the call.                                  *)
LEMMA FailureRefuses ==
  ASSUME IInv, IInv', NEW t \in Threads, RefreshFails(t)
  PROVE  Abstract!Refuse(t)
<1>1. PICK kind \in {"JWKSError", "OtherError"} : Ends(t, kind, {})
  BY DEF RefreshFails
<1>2. PhaseOf(t) = "consulted" /\ SeenBy(t) = 0 /\ HeardBy(t) = 0 /\ outcome[t].keys = {}
  BY DEF RefreshFails, PhaseOf, SeenBy, HeardBy, Usable, IInv, AnswerInv, AnswerOK, Pending
<1>3. /\ Phases' = [Phases EXCEPT ![t] = "refused"]
      /\ Seens' = [Seens EXCEPT ![t] = 0]
      /\ Heards' = Heards
      /\ Givens' = [Givens EXCEPT ![t] = {}]
  BY <1>1, <1>2, EndsParts
<1>4. Givens' = Givens
  BY <1>2, <1>3 DEF Givens
<1>5. UNCHANGED <<clock, back, pubs, keys, keysVer, fetchedAt, want>>
  BY DEF RefreshFails, realm, cache
<1> QED
  BY <1>2, <1>3, <1>4, <1>5
  DEF Abstract!Refuse, Abstract!Becomes, Phases, Seens, Heards, Givens

(* After a refresh a call is served what is held, or refused.              *)
LEMMA ReturnAnswers ==
  ASSUME IInv, IInv', NEW t \in Threads, Return(t)
  PROVE  Abstract!Serve(t) \/ Abstract!Refuse(t)
<1>1. UNCHANGED <<clock, back, pubs, keys, keysVer, fetchedAt, want>>
  BY DEF Return, realm, cache
<1>2. /\ PhaseOf(t) \in {"learnt", "consulted"}
      /\ PhaseOf(t) = "consulted" => SeenBy(t) = 0
      /\ HeardBy(t) = 0 /\ outcome[t].keys = {}
  BY DEF Return, PhaseOf, SeenBy, HeardBy, IInv, AnswerInv, AnswerOK, Pending
<1>3. CASE Cached(want[t]) /\ Ends(t, "keys", KeysFor(want[t]))
  <2>1. /\ Phases' = [Phases EXCEPT ![t] = "served"]
        /\ Seens' = [Seens EXCEPT ![t] = 0]
        /\ Heards' = Heards
        /\ Givens' = [Givens EXCEPT ![t] = KeysFor(want[t])]
    BY <1>2, <1>3, EndsParts
  <2> QED
    BY <1>1, <1>2, <1>3, <2>1
    DEF Abstract!Serve, Abstract!Becomes, Phases, Seens, Heards, Givens, KeysFor, Cached
<1>4. CASE ~Cached(want[t]) /\ Ends(t, "JWKSError", {})
  <2>1. /\ Phases' = [Phases EXCEPT ![t] = "refused"]
        /\ Seens' = [Seens EXCEPT ![t] = 0]
        /\ Heards' = Heards
        /\ Givens' = [Givens EXCEPT ![t] = {}]
    BY <1>2, <1>4, EndsParts
  <2>2. Givens' = Givens
    BY <1>2, <2>1 DEF Givens
  <2> QED
    BY <1>1, <1>2, <1>4, <2>1, <2>2
    DEF Abstract!Refuse, Abstract!Becomes, Phases, Seens, Heards, Givens, Cached
<1> QED
  BY <1>3, <1>4 DEF Return

(* The caller leaves.                                                      *)
LEMMA TakeLeaves ==
  ASSUME IInv, IInv', NEW t \in Threads, Take(t)
  PROVE  Abstract!Leave(t)
<1>1. /\ PhaseOf(t) \in {"served", "refused"} /\ PhaseOf(t)' = "none"
      /\ SeenBy(t)' = SeenBy(t) /\ HeardBy(t)' = HeardBy(t) /\ outcome'[t].keys = {}
  BY DEF Take, PhaseOf, SeenBy, HeardBy, Goto, Pending, IInv, TypeOK
<1>2. /\ Phases' = [Phases EXCEPT ![t] = PhaseOf(t)']
      /\ Seens' = [Seens EXCEPT ![t] = SeenBy(t)']
      /\ Heards' = [Heards EXCEPT ![t] = HeardBy(t)']
      /\ Givens' = [Givens EXCEPT ![t] = outcome'[t].keys]
  BY OwnPart DEF Take, IInv, TypeOK
<1> QED
  BY <1>1, <1>2 DEF Take, Abstract!Leave, Abstract!Becomes, Phases, Seens, Heards, Givens, realm, cache

(* A new process starts with a key set published once, or with none.       *)
LEMMA RestartForgets ==
  ASSUME IInv, Restart
  PROVE  Abstract!Forget
<1>1. \E v \in 0..Len(pubs) : \E K \in Abstract!SetsOf(v) :
         [keys |-> keys, ver |-> keysVer]' = [keys |-> K, ver |-> v]
  <2>1. CASE UseDisk /\ disk.state = "good" /\ keys' = disk.keys /\ keysVer' = disk.ver
    <3>1. disk.ver \in 0..Len(pubs) /\ disk.keys \in Abstract!SetsOf(disk.ver)
      BY <2>1 DEF Abstract!SetsOf, IInv, DiskInv, Genuine, TypeOK
    <3> QED
      BY <2>1, <3>1
  <2>2. CASE keys' = {} /\ keysVer' = 0
    <3>1. 0 \in 0..Len(pubs) /\ {} \in Abstract!SetsOf(0)
      BY DEF Abstract!SetsOf, IInv, TypeOK
    <3> QED
      BY <2>2, <3>1
  <2> QED
    BY <2>1, <2>2 DEF Restart
<1>2. /\ [t \in Threads |-> PhaseOf(t)]' = [t \in Threads |-> "none"]
      /\ [t \in Threads |-> SeenBy(t)]' = [t \in Threads |-> 0]
      /\ [t \in Threads |-> HeardBy(t)]' = [t \in Threads |-> 0]
      /\ [t \in Threads |-> outcome[t].keys]' = [t \in Threads |-> {}]
  BY DEF Restart, PhaseOf, SeenBy, HeardBy, NoAnswer, Pending, Usable
<1> QED
  BY <1>1, <1>2 DEF Restart, Abstract!Forget, realm, LoadedAt
-----------------------------------------------------------------------------
(* The initial states map to initial states.                               *)
LEMMA InitRefines == Init => Abstract!KCInit
<1> SUFFICES ASSUME Init PROVE Abstract!KCInit
  OBVIOUS
<1>1. /\ [t \in Threads |-> PhaseOf(t)] = [t \in Threads |-> "none"]
      /\ [t \in Threads |-> SeenBy(t)] = [t \in Threads |-> 0]
      /\ [t \in Threads |-> HeardBy(t)] = [t \in Threads |-> 0]
      /\ [t \in Threads |-> outcome[t].keys] = [t \in Threads |-> {}]
  BY DEF Init, PhaseOf, SeenBy, HeardBy, NoAnswer, Pending, Usable
<1>2. /\ clock = TTL + 1 /\ back = 0 /\ fetchedAt = 0 /\ want = [t \in Threads |-> AllKeys]
      /\ \E K \in (SUBSET Kids) \ {{}} : pubs = <<[keys |-> K, at |-> 0]>>
      /\ [keys |-> keys, ver |-> keysVer] = [keys |-> {}, ver |-> 0]
  BY DEF Init
<1> QED
  BY <1>1, <1>2 DEF Abstract!KCInit

(* Every step maps to a step or a stutter.                                 *)
LEMMA NextRefines ==
  IInv /\ IInv' /\ [Next]_vars => [Abstract!KCNext]_Abstract!kcVars
<1> SUFFICES ASSUME IInv, IInv', [Next]_vars
             PROVE  Abstract!KCNext \/ UNCHANGED Abstract!kcVars
  OBVIOUS
<1>1. ASSUME UNCHANGED Shown
      PROVE  UNCHANGED Abstract!kcVars
  BY <1>1 DEF Shown, Abstract!kcVars, Held, Phases, Seens, Heards, Givens
<1>2. ASSUME NEW t \in Threads, Progress(t)
      PROVE  Abstract!KCNext \/ UNCHANGED Abstract!kcVars
  <2>1. CASE \/ StartRefresh(t) \/ UseStale(t) \/ OpenForWrite(t)
             \/ Write(t) \/ SaveFails(t)
    BY <2>1, <1>1, SilentSteps
  <2>2. CASE Hit(t)
    BY <2>2, HitServes DEF Abstract!KCNext
  <2>3. CASE \E kind \in AnswerKinds : Answer(t, kind)
    BY <2>3, AnswerConsults DEF Abstract!KCNext
  <2>4. CASE RefreshFails(t)
    BY <2>4, FailureRefuses DEF Abstract!KCNext
  <2>5. CASE Adopt(t)
    BY <2>5, AdoptLearns DEF Abstract!KCNext
  <2>6. CASE Return(t)
    BY <2>6, ReturnAnswers DEF Abstract!KCNext
  <2> QED
    BY <1>2, <2>1, <2>2, <2>3, <2>4, <2>5, <2>6 DEF Progress
<1>3. ASSUME NEW t \in Threads, Take(t) PROVE Abstract!KCNext
  BY <1>3, TakeLeaves DEF Abstract!KCNext
<1>4. ASSUME NEW t \in Threads, NEW r \in Requests, Call(t, r) PROVE Abstract!KCNext
  BY <1>4, CallAsks DEF Abstract!KCNext, Requests
<1>5. ASSUME NEW K \in SUBSET Kids, Rotate(K) PROVE Abstract!KCNext
  <2>1. UNCHANGED <<clock, back, want, Held, fetchedAt, Phases, Seens, Heards, Givens>>
    BY <1>5 DEF Rotate, cache, calls, PhaseOf, SeenBy, HeardBy, Held, Phases, Seens, Heards, Givens
  <2>2. K \in (SUBSET Kids) \ {{}} /\ pubs' = Append(pubs, [keys |-> K, at |-> clock])
    BY <1>5 DEF Rotate
  <2>3. Abstract!Publish
    BY <2>1, <2>2 DEF Abstract!Publish, Held, Phases, Seens, Heards, Givens
  <2> QED
    BY <2>3 DEF Abstract!KCNext
<1>6. CASE Tick
  <2>1. /\ clock' = clock + 1
        /\ UNCHANGED <<back, pubs, Held, fetchedAt, want, Phases, Seens, Heards, Givens>>
    BY <1>6 DEF Tick, cache, calls, Held, Phases, Seens, Heards, Givens, PhaseOf, SeenBy, HeardBy
  <2>2. \A t \in Threads : HeardBy(t) # 0 => clock < HeardBy(t) + Lag
    BY <1>6 DEF Tick, HeardBy
  <2>3. \A t \in Threads : Heards[t] # 0 => clock < Heards[t] + Lag
    BY <2>2 DEF Heards
  <2>4. Abstract!Pass
    BY <2>1, <2>3 DEF Abstract!Pass, Held, Phases, Seens, Heards, Givens
  <2> QED
    BY <2>4 DEF Abstract!KCNext
<1>7. CASE Restart
  BY <1>7, RestartForgets DEF Abstract!KCNext
<1>8. CASE OtherSaves
  BY <1>8 DEF OtherSaves, realm, cache, calls, PhaseOf, SeenBy, HeardBy, Abstract!kcVars
<1>9. CASE SetBack
  <2>1. UNCHANGED <<clock, pubs, Held, want, Phases, Seens, Heards, Givens>>
    BY <1>9 DEF SetBack, calls, Held, Phases, Seens, Heards, Givens, PhaseOf, SeenBy, HeardBy
  <2>2. Abstract!SetBack
    BY <1>9, <2>1 DEF SetBack, Abstract!SetBack, Held, Phases, Seens, Heards, Givens
  <2> QED
    BY <2>2 DEF Abstract!KCNext
<1>10. CASE UNCHANGED vars
  BY <1>10 DEF vars, realm, cache, calls, PhaseOf, SeenBy, HeardBy, Abstract!kcVars
<1> QED
  BY <1>2, <1>3, <1>4, <1>5, <1>6, <1>7, <1>8, <1>9, <1>10 DEF Next

(* The fetcher, with its threads, lock, network, disk file and restarts,   *)
(* is to its callers the abstract cache.                                   *)
THEOREM Refinement == Spec => ImplementsKeyCache
  BY InitRefines, NextRefines, Invariance, PTL
  DEF Spec, ImplementsKeyCache, Abstract!KCSpec
=============================================================================
