------------------------ MODULE ValidatorOnFetcher ------------------------
(***************************************************************************)
(* jwt_validator.py with a jwks_url on top of jwks.py as it is: threads    *)
(* that validate tokens and, for their keys, go through the lock, the GET  *)
(* and the disk file of JWKSFetcher.  HubJWTValidator has KeyCache in the  *)
(* place of the fetcher; this module is the claim that it makes no         *)
(* difference to a caller.                                                 *)
(***************************************************************************)
EXTENDS JWKSRefinement

CONSTANTS Secret, NoKey, NotRSA, RequiredType, Leeway, StrictSub, Tokens

VARIABLES token, entry, stage, verdict, rotated, failed

(* The validator over the abstract cache that the fetcher implements, and  *)
(* what is proved of it.                                                   *)
V == INSTANCE ValidatorProofs WITH
    Callers   <- Threads,
    UseJWKS   <- TRUE,
    held      <- [keys |-> keys, ver |-> keysVer],
    confirmed <- fetchedAt,
    phase     <- [t \in Threads |-> PhaseOf(t)],
    seen      <- [t \in Threads |-> SeenBy(t)],
    heard     <- [t \in Threads |-> HeardBy(t)],
    given     <- [t \in Threads |-> outcome[t].keys]

validations == <<token, entry, stage, verdict, rotated, failed>>
allVars     == <<vars, validations>>

(* No validation is under way.                                             *)
AllInit ==
    /\ Init
    /\ token = [t \in Threads |-> V!NoToken]
    /\ entry = [t \in Threads |-> "any"]
    /\ stage = [t \in Threads |-> "idle"]
    /\ verdict = [t \in Threads |-> V!Raises("none")]
    /\ rotated = [t \in Threads |-> FALSE]
    /\ failed = [t \in Threads |-> FALSE]

(* A thread brings a token and calls get_key with its kid; without one it  *)
(* is done.                                                                *)
Bring(t, tok, e) ==
    /\ stage[t] = "idle"
    /\ token' = [token EXCEPT ![t] = tok]
    /\ entry' = [entry EXCEPT ![t] = e]
    /\ \/ /\ tok.kid \in Kids /\ Call(t, tok.kid)
          /\ stage' = [stage EXCEPT ![t] = "lookup"]
          /\ rotated' = [rotated EXCEPT ![t] = tok.kid \notin V!Published]
          /\ UNCHANGED verdict
       \/ /\ tok.kid = NoKey /\ V!Concludes(t, V!Raises("InvalidToken"))
          /\ UNCHANGED <<vars, rotated>>
    /\ UNCHANGED failed

(* It is in get_key; (history) how its own exchange with the realm went.   *)
InGetKey(t) ==
    /\ stage[t] = "lookup"
    /\ \/ \E kind \in AnswerKinds :
             Answer(t, kind) /\ failed' = [failed EXCEPT ![t] = kind \notin Usable]
       \/ Adopt(t) /\ failed' = [failed EXCEPT ![t] = (keys' = {})]
       \/ /\ \/ Hit(t) \/ StartRefresh(t) \/ UseStale(t) \/ RefreshFails(t)
             \/ OpenForWrite(t) \/ Write(t) \/ SaveFails(t) \/ Return(t)
          /\ UNCHANGED failed
    /\ UNCHANGED <<token, entry, stage, verdict, rotated>>

(* get_key has raised, and whatever it was becomes an InvalidToken, ...    *)
Rejects(t) ==
    /\ stage[t] = "lookup" /\ outcome[t].kind \in {"JWKSError", "OtherError"}
    /\ Take(t)
    /\ V!Concludes(t, V!Raises("InvalidToken"))
    /\ UNCHANGED <<token, entry, rotated, failed>>

(* ... or has returned the key that the token is decoded with.             *)
Decodes(t) ==
    /\ stage[t] = "lookup" /\ outcome[t].kind = "keys"
    /\ \E key \in outcome[t].keys : V!Concludes(t, V!Decoded(token[t], entry[t], key))
    /\ Take(t)
    /\ UNCHANGED <<token, entry, rotated, failed>>

(* The caller goes on.                                                     *)
GoesOn(t) == UNCHANGED vars /\ V!Done(t)

RealmRotates ==
    /\ \E K \in SUBSET Kids : Rotate(K)
    /\ rotated' = [t \in Threads |->
                     \/ rotated[t]
                     \/ stage[t] = "lookup" /\ token[t].kid \notin V!Published']
    /\ UNCHANGED <<token, entry, stage, verdict, failed>>

(* What goes on around the validations.                                    *)
Meanwhile == (Tick \/ SetBack \/ OtherSaves) /\ UNCHANGED validations

(* The process and its calls are gone.                                     *)
AllRestart ==
    /\ Restart
    /\ token' = [t \in Threads |-> V!NoToken]
    /\ entry' = [t \in Threads |-> "any"]
    /\ stage' = [t \in Threads |-> "idle"]
    /\ verdict' = [t \in Threads |-> V!Raises("none")]
    /\ rotated' = [t \in Threads |-> FALSE]
    /\ failed' = [t \in Threads |-> FALSE]

AllNext ==
    \/ \E t \in Threads :
          \/ \E tok \in Tokens, e \in V!Entries : Bring(t, tok, e)
          \/ InGetKey(t) \/ Rejects(t) \/ Decodes(t) \/ GoesOn(t)
    \/ RealmRotates \/ Meanwhile \/ AllRestart

AllSpec == AllInit /\ [][AllNext]_allVars

(* Validations on the fetcher are validations on the abstract cache.       *)
ValidatesAsOnKeyCache == V!Spec
=============================================================================
