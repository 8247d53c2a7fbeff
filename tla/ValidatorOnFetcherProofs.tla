--------------------- MODULE ValidatorOnFetcherProofs ---------------------
(***************************************************************************)
(* Validations on JWKSFetcher are validations on KeyCache, for any number  *)
(* of threads, keys, tokens, rotations and restarts; what is proved of the *)
(* latter is true of the former.                                           *)
(***************************************************************************)
EXTENDS ValidatorOnFetcher, JWKSRefinementProofs

(* The two instances of the abstract cache are one.                        *)
LEMMA SameSteps ==
  ASSUME NEW t \in Threads
  PROVE  /\ \A r \in Kids : Abstract!Ask(t, r) => V!Keys!Ask(t, r)
         /\ Abstract!Consult(t) => V!Keys!Consult(t)
         /\ Abstract!Learn(t) => V!Keys!Learn(t)
         /\ Abstract!Serve(t) => V!Keys!Serve(t)
         /\ Abstract!Refuse(t) => V!Keys!Refuse(t)
         /\ Abstract!Leave(t) => V!Keys!Leave(t)
<1>1. \A r \in Kids : Abstract!Ask(t, r) => V!Keys!Ask(t, r)
  BY DEF Abstract!Ask, Abstract!Becomes, V!Keys!Ask, V!Keys!Becomes
<1>2. Abstract!Consult(t) => V!Keys!Consult(t)
  BY DEF Abstract!Consult, Abstract!Becomes, V!Keys!Consult, V!Keys!Becomes
<1>3. Abstract!Learn(t) => V!Keys!Learn(t)
  BY DEF Abstract!Learn, Abstract!Becomes, Abstract!SetsOf,
         V!Keys!Learn, V!Keys!Becomes, V!Keys!SetsOf
<1>4. Abstract!Serve(t) => V!Keys!Serve(t)
  BY DEF Abstract!Serve, Abstract!Becomes, V!Keys!Serve, V!Keys!Becomes
<1>5. Abstract!Refuse(t) => V!Keys!Refuse(t)
  BY DEF Abstract!Refuse, Abstract!Becomes, V!Keys!Refuse, V!Keys!Becomes
<1>6. Abstract!Leave(t) => V!Keys!Leave(t)
  BY DEF Abstract!Leave, Abstract!Becomes, V!Keys!Leave, V!Keys!Becomes
<1> QED
  BY <1>1, <1>2, <1>3, <1>4, <1>5, <1>6

(* What callers of the cache see of it is all that a validation does.      *)
LEMMA ShownIsSeen ==
  ASSUME UNCHANGED Shown
  PROVE  UNCHANGED <<V!time, V!cached>>
BY DEF Shown, Held, Phases, Seens, Heards, Givens, V!time, V!cached

(* The threads, the disk and the realm do what they do without validations.*)
LEMMA FetcherSteps == [AllNext]_allVars => [Next]_vars
<1> SUFFICES ASSUME [AllNext]_allVars PROVE Next \/ UNCHANGED vars
  OBVIOUS
<1>1. ASSUME NEW t \in Threads, NEW tok \in Tokens, NEW e, Bring(t, tok, e)
      PROVE  Next \/ UNCHANGED vars
  BY <1>1 DEF Bring, Next, Requests
<1>2. ASSUME NEW t \in Threads, InGetKey(t) PROVE Next
  BY <1>2 DEF InGetKey, Next, Progress
<1>3. ASSUME NEW t \in Threads, Rejects(t) \/ Decodes(t) PROVE Next
  BY <1>3 DEF Rejects, Decodes, Next
<1>4. ASSUME NEW t \in Threads, GoesOn(t) PROVE UNCHANGED vars
  BY <1>4 DEF GoesOn
<1>5. ASSUME RealmRotates \/ Meanwhile \/ AllRestart PROVE Next
  BY <1>5 DEF RealmRotates, Meanwhile, AllRestart, Next
<1>6. ASSUME UNCHANGED allVars PROVE UNCHANGED vars
  BY <1>6 DEF allVars
<1> QED
  BY <1>1, <1>2, <1>3, <1>4, <1>5, <1>6 DEF AllNext

LEMMA FetcherRuns == AllSpec => Spec
<1>1. AllInit => Init
  BY DEF AllInit
<1> QED
  BY <1>1, FetcherSteps, PTL DEF AllSpec, Spec
-----------------------------------------------------------------------------
LEMMA BringValidates ==
  ASSUME IInv, IInv', NEW t \in Threads, NEW tok \in Tokens, NEW e \in V!Entries,
         Bring(t, tok, e)
  PROVE  V!Validate(t, tok, e)
<1>1. CASE /\ tok.kid \in Kids /\ Call(t, tok.kid)
           /\ stage' = [stage EXCEPT ![t] = "lookup"]
           /\ rotated' = [rotated EXCEPT ![t] = tok.kid \notin V!Published]
           /\ UNCHANGED verdict
  <2>1. tok.kid \in Requests
    BY <1>1 DEF Requests
  <2>2. V!Keys!Ask(t, tok.kid)
    BY <1>1, <2>1, CallAsks, SameSteps
  <2> QED
    BY <1>1, <2>2 DEF Bring, V!Validate
<1>2. CASE /\ tok.kid = NoKey /\ V!Concludes(t, V!Raises("InvalidToken"))
           /\ UNCHANGED <<vars, rotated>>
  <2>1. UNCHANGED <<V!time, V!cached>>
    BY <1>2 DEF vars, realm, cache, calls, PhaseOf, SeenBy, HeardBy, V!time, V!cached
  <2> QED
    BY <1>2, <2>1 DEF Bring, V!Validate
<1> QED
  BY <1>1, <1>2 DEF Bring

(* What a thread does in get_key is what the abstract cache does for its   *)
(* caller, or nothing it would notice.                                     *)
LEMMA InGetKeyLooksUp ==
  ASSUME IInv, IInv', NEW t \in Threads, InGetKey(t)
  PROVE  V!Lookup(t) \/ UNCHANGED V!vars
<1> USE DEF IInv
<1>1. stage[t] = "lookup" /\ UNCHANGED <<V!request, stage, verdict, rotated>>
  BY DEF InGetKey, V!request
<1>2. ASSUME NEW kind \in AnswerKinds, Answer(t, kind),
             failed' = [failed EXCEPT ![t] = kind \notin Usable]
      PROVE  V!Lookup(t)
  <2>1. V!Keys!Consult(t)
    BY <1>2, AnswerConsults, SameSteps
  <2>2. SeenBy(t)' = 0 <=> kind \notin Usable
    BY <1>2 DEF Answer, SeenBy, TypeOK, RealmInv
  <2>3. failed' = [failed EXCEPT ![t] = ([s \in Threads |-> SeenBy(s)]'[t] = 0)]
    BY <1>2, <2>2
  <2> QED
    BY <1>1, <2>1, <2>3 DEF V!Lookup
<1>3. CASE Adopt(t) /\ failed' = [failed EXCEPT ![t] = (keys' = {})]
  <2>1. V!Keys!Learn(t)
    BY <1>3, AdoptLearns, SameSteps
  <2> QED
    BY <1>1, <1>3, <2>1 DEF V!Lookup
<1>4. CASE (Hit(t) \/ RefreshFails(t) \/ Return(t)) /\ UNCHANGED failed
  <2>1. V!Keys!Serve(t) \/ V!Keys!Refuse(t)
    BY <1>4, HitServes, FailureRefuses, ReturnAnswers, SameSteps
  <2> QED
    BY <1>1, <1>4, <2>1 DEF V!Lookup
<1>5. CASE /\ \/ StartRefresh(t) \/ UseStale(t) \/ OpenForWrite(t)
              \/ Write(t) \/ SaveFails(t)
           /\ UNCHANGED failed
  BY <1>1, <1>5, SilentSteps, ShownIsSeen DEF V!vars
<1> QED
  BY <1>2, <1>3, <1>4, <1>5 DEF InGetKey

LEMMA RejectsFails ==
  ASSUME IInv, IInv', NEW t \in Threads, Rejects(t)
  PROVE  V!LookupFails(t)
<1>1. V!Keys!Leave(t)
  BY TakeLeaves, SameSteps DEF Rejects
<1>2. PhaseOf(t) = "refused"
  BY DEF Rejects, Take, PhaseOf
<1> QED
  BY <1>1, <1>2 DEF Rejects, V!LookupFails, V!request

LEMMA DecodesDecodes ==
  ASSUME IInv, IInv', NEW t \in Threads, Decodes(t)
  PROVE  V!Decode(t)
<1>1. V!Keys!Leave(t)
  BY TakeLeaves, SameSteps DEF Decodes
<1>2. PhaseOf(t) = "served"
  BY DEF Decodes, Take, PhaseOf
<1> QED
  BY <1>1, <1>2 DEF Decodes, V!Decode, V!request

LEMMA GoesOnIsDone ==
  ASSUME NEW t \in Threads, GoesOn(t)
  PROVE  V!Done(t)
BY DEF GoesOn

(* The realm and the clock.                                                *)
LEMMA RotatesPublishes ==
  ASSUME RealmRotates
  PROVE  V!Rotation
<1>1. PICK K \in SUBSET Kids : Rotate(K)
  BY DEF RealmRotates
<1>3. UNCHANGED <<clock, back, want, Held, fetchedAt, Phases, Seens, Heards, Givens>>
  BY <1>1 DEF Rotate, cache, calls, PhaseOf, SeenBy, HeardBy, Held, Phases, Seens, Heards, Givens
<1>4. /\ Len(pubs) < MaxPubs
      /\ K \in (SUBSET Kids) \ {{}} /\ pubs' = Append(pubs, [keys |-> K, at |-> clock])
  BY <1>1 DEF Rotate
<1>5. V!Keys!Publish
  BY <1>3, <1>4 DEF V!Keys!Publish, Held, Phases, Seens, Heards, Givens
<1> QED
  BY <1>4, <1>5 DEF RealmRotates, V!Rotation, V!request

LEMMA TimePasses ==
  ASSUME Tick, UNCHANGED validations
  PROVE  V!Tick
<1>1. /\ clock' = clock + 1
      /\ UNCHANGED <<back, pubs, Held, fetchedAt, want, Phases, Seens, Heards, Givens>>
  BY DEF Tick, cache, calls, Held, Phases, Seens, Heards, Givens, PhaseOf, SeenBy, HeardBy
<1>2. \A t \in Threads : HeardBy(t) # 0 => clock < HeardBy(t) + Lag
  BY DEF Tick, HeardBy
<1>3. V!Keys!Pass
  BY <1>1, <1>2 DEF V!Keys!Pass, Held, Phases, Seens, Heards, Givens
<1> QED
  BY <1>3 DEF Tick, validations, V!Tick, V!request

LEMMA ClockSetBack ==
  ASSUME SetBack, UNCHANGED validations
  PROVE  V!SetBack
<1>1. UNCHANGED <<clock, pubs, Held, want, Phases, Seens, Heards, Givens>>
  BY DEF SetBack, calls, Held, Phases, Seens, Heards, Givens, PhaseOf, SeenBy, HeardBy
<1>2. V!Keys!SetBack
  BY <1>1 DEF SetBack, V!Keys!SetBack, Held, Phases, Seens, Heards, Givens
<1> QED
  BY <1>2 DEF SetBack, validations, V!SetBack, V!request

LEMMA RestartsForget ==
  ASSUME IInv, AllRestart
  PROVE  V!Restart
<1>1. Abstract!Forget
  BY RestartForgets DEF AllRestart
<1>2. V!Keys!Forget
  BY <1>1 DEF Abstract!Forget, Abstract!SetsOf, V!Keys!Forget, V!Keys!SetsOf
<1> QED
  BY <1>2 DEF AllRestart, V!Restart
-----------------------------------------------------------------------------
LEMMA AllInitRefines == AllInit => V!Init
<1> SUFFICES ASSUME AllInit PROVE V!Init
  OBVIOUS
<1>1. Abstract!KCInit
  BY InitRefines DEF AllInit
<1>2. V!Keys!KCInit
  BY <1>1 DEF Abstract!KCInit, V!Keys!KCInit
<1> QED
  BY <1>2 DEF AllInit, V!Init

LEMMA AllNextRefines ==
  IInv /\ IInv' /\ [AllNext]_allVars => [V!Next]_V!vars
<1> SUFFICES ASSUME IInv, IInv', [AllNext]_allVars
             PROVE  V!Next \/ UNCHANGED V!vars
  OBVIOUS
<1>1. ASSUME NEW t \in Threads, NEW tok \in Tokens, NEW e \in V!Entries, Bring(t, tok, e)
      PROVE  V!Next
  BY <1>1, BringValidates DEF V!Next
<1>2. ASSUME NEW t \in Threads, InGetKey(t) PROVE V!Next \/ UNCHANGED V!vars
  BY <1>2, InGetKeyLooksUp DEF V!Next
<1>3. ASSUME NEW t \in Threads, Rejects(t) PROVE V!Next
  BY <1>3, RejectsFails DEF V!Next
<1>4. ASSUME NEW t \in Threads, Decodes(t) PROVE V!Next
  BY <1>4, DecodesDecodes DEF V!Next
<1>5. ASSUME NEW t \in Threads, GoesOn(t) PROVE V!Next
  BY <1>5, GoesOnIsDone DEF V!Next
<1>6. CASE RealmRotates
  BY <1>6, RotatesPublishes DEF V!Next
<1>7. CASE Meanwhile
  <2>1. CASE OtherSaves /\ UNCHANGED validations
    <3>1. UNCHANGED Shown
      BY <2>1 DEF OtherSaves, realm, cache, calls, PhaseOf, SeenBy, HeardBy,
                  Shown, Held, Phases, Seens, Heards, Givens
    <3> QED
      BY <2>1, <3>1, ShownIsSeen DEF validations, V!vars, V!request
  <2> QED
    BY <1>7, <2>1, TimePasses, ClockSetBack DEF Meanwhile, V!Next
<1>8. CASE AllRestart
  BY <1>8, RestartsForget DEF V!Next
<1>9. CASE UNCHANGED allVars
  <2>1. UNCHANGED Shown
    BY <1>9 DEF allVars, vars, realm, cache, calls, PhaseOf, SeenBy, HeardBy,
                Shown, Held, Phases, Seens, Heards, Givens
  <2> QED
    BY <1>9, <2>1, ShownIsSeen DEF allVars, validations, V!vars, V!request
<1> QED
  BY <1>1, <1>2, <1>3, <1>4, <1>5, <1>6, <1>7, <1>8, <1>9 DEF AllNext

(* A validation on the lock, the GETs and the disk file of the fetcher is  *)
(* one on the abstract cache that HubJWTValidator has in their place.      *)
THEOREM Composition == AllSpec => ValidatesAsOnKeyCache
<1>1. AllSpec => []IInv
  BY FetcherRuns, Invariance, PTL
<1> QED
  BY <1>1, AllInitRefines, AllNextRefines, PTL
  DEF AllSpec, ValidatesAsOnKeyCache, V!Spec
-----------------------------------------------------------------------------
(* So, with the constants that HubJWTValidator assumes, what is proved of  *)
(* it holds of threads on the real fetcher.  A token is accepted only when *)
(* genuine, and not expired or of an unpublished key, ...                  *)
THEOREM FetcherAcceptsGenuine ==
  ASSUME V!KeysAssumption, V!ModeAssumption, V!TokensAssumption, V!TimeAssumption
  PROVE  AllSpec => V!OnlyGenuineAccepted
BY Composition, V!AcceptedAreGenuine, PTL DEF ValidatesAsOnKeyCache

(* ... a genuine token is judged by its claims alone whatever the disk file*)
(* held, unless the thread's own GET failed, ...                           *)
THEOREM FetcherRejectsNoGenuine ==
  ASSUME V!KeysAssumption, V!ModeAssumption, V!TokensAssumption, V!TimeAssumption
  PROVE  AllSpec => V!NoFalseReject
BY Composition, V!GenuineAreAccepted, PTL DEF ValidatesAsOnKeyCache

(* ... a key from memory was in force at most the TTL and the Lag ago, ... *)
THEOREM FetcherKeysExpire ==
  ASSUME V!KeysAssumption, V!ModeAssumption, V!TokensAssumption, V!TimeAssumption
  PROVE  AllSpec => V!WithdrawnKeyBound
BY Composition, V!WithdrawnKeysExpire, PTL DEF ValidatesAsOnKeyCache

(* ... and verdicts are coherent, agree over the methods, and let nothing  *)
(* but InvalidToken out except for odd tokens.                             *)
THEOREM FetcherVerdicts ==
  ASSUME V!KeysAssumption, V!ModeAssumption, V!TokensAssumption, V!TimeAssumption
  PROVE  AllSpec => [](V!PrincipalsCoherent /\ V!EntriesAgree /\ V!OnlyOddTokensEscape)
BY Composition, V!PrincipalsAreCoherent, V!MethodsAgree, V!OddTokensAlone, PTL
   DEF ValidatesAsOnKeyCache
=============================================================================
