-------------------------- MODULE HubJWTValidator --------------------------
(***************************************************************************)
(* Concurrent validations of tokens, inventia_spoke_sdk/jwt_validator.py:  *)
(* what _decode checks with which key, over the key cache as KeyCache      *)
(* promises it (JWKSFetcher implements that), while the realm rotates its  *)
(* keys, exchanges with it fail and time passes.                           *)
(*                                                                         *)
(* A token has the kid of its header (NoKey when there is none to read),   *)
(* its algorithm, the key its signature verifies with (NoKey when there is *)
(* none), whether iss and aud are those configured, the times iat, nbf and *)
(* exp, its "type" claim and the other claims.                             *)
(***************************************************************************)
EXTENDS TokenClaims

CONSTANTS
    Kids, Callers, AllKeys, TTL, Lag,
    UseJWKS,       \* configured with jwks_url, as opposed to secret
    Secret,        \* the shared secret of the HS256 mode
    NoKey,         \* no key at all
    NotRSA,        \* the published kids RSAAlgorithm.from_jwk cannot read
    RequiredType,  \* required_token_type, "none" to accept any
    Leeway,        \* leeway_seconds
    StrictSub,     \* the installed PyJWT rejects a "sub" that is no text
    Tokens,        \* the tokens that callers bring
    MaxClock, MaxPubs, MaxBack   \* bounds of the exploration

ASSUME KeysAssumption ==
    /\ AllKeys \notin Kids /\ Secret \notin Kids /\ NoKey \notin Kids
    /\ NotRSA \subseteq Kids
ASSUME ModeAssumption == UseJWKS \in BOOLEAN /\ StrictSub \in BOOLEAN
(* The header's alg: one of a family that PyJWT has ("none" is its own; in *)
(* the mode of the secret "HMAC" is the configured one), a value that it   *)
(* cannot look up (an array), or any other, none included.                 *)
Algorithms == {"RSA", "HMAC", "EC", "OKP", "none", "unhashable", "unknown"}

(* A time claim: absent, null, a time (as a number or in text), other text *)
(* or NaN, an infinite number (1e999), an array or an object.              *)
TimeClaims == [is : {"absent", "null", "time", "text", "infinite", "array"}, at : Nat]

ASSUME TokensAssumption ==
    Tokens \subseteq [kid : Kids \cup {NoKey}, alg : Algorithms,
                      key : Kids \cup {NoKey, Secret}, addressed : BOOLEAN,
                      iat : TimeClaims, nbf : TimeClaims, exp : TimeClaims,
                      type : {"absent", "access", "other"}, claims : Claims]
ASSUME TimeAssumption == TTL \in Nat /\ Lag \in Nat /\ Leeway \in Nat

VARIABLES
    clock, back, pubs, held, confirmed, phase, want, seen, heard, given, \* of KeyCache
    token,      \* what each caller validates
    entry,      \* by which method
    stage,      \* "idle", "lookup", "decode" or "done"
    verdict,    \* the principal returned or the error raised
    rotated,    \* its kid has been out of the published keys during the call
    failed      \* its own exchange with the realm was no success

Keys == INSTANCE KeyCache

request == <<token, entry>>
time    == <<clock, back>>
cached  == <<pubs, held, confirmed, phase, want, seen, heard, given>>
vars    == <<time, cached, request, stage, verdict, rotated, failed>>

NoToken == [kid |-> NoKey]
OrNone  == Tokens \cup {NoToken}
Verdicts == [result : {"none", "user", "client"} \cup Errors,
             id : Words \cup {"none"},
             account : UUIDs \cup {"none"}, contract : UUIDs \cup {"none"}]
Published == pubs[Len(pubs)].keys

TypeOK ==
    /\ token \in [Callers -> OrNone]
    /\ entry \in [Callers -> Entries]
    /\ stage \in [Callers -> {"idle", "lookup", "decode", "done"}]
    /\ verdict \in [Callers -> Verdicts]
    /\ rotated \in [Callers -> BOOLEAN]
    /\ failed \in [Callers -> BOOLEAN]

Init ==
    /\ Keys!KCInit
    /\ token = [c \in Callers |-> NoToken]
    /\ entry = [c \in Callers |-> "any"]
    /\ stage = [c \in Callers |-> "idle"]
    /\ verdict = [c \in Callers |-> Raises("none")]
    /\ rotated = [c \in Callers |-> FALSE]
    /\ failed = [c \in Callers |-> FALSE]
-----------------------------------------------------------------------------
Concludes(c, v) ==
    /\ stage' = [stage EXCEPT ![c] = "done"]
    /\ verdict' = [verdict EXCEPT ![c] = v]

(* A caller brings a token.  With a JWKS its kid is looked up; a token     *)
(* without one, or without a readable header, is rejected at once.         *)
Validate(c, tok, e) ==
    /\ stage[c] = "idle"
    /\ token' = [token EXCEPT ![c] = tok]
    /\ entry' = [entry EXCEPT ![c] = e]
    /\ \/ /\ UseJWKS /\ tok.kid \in Kids
          /\ Keys!Ask(c, tok.kid)
          /\ rotated' = [rotated EXCEPT ![c] = tok.kid \notin Published]
          /\ stage' = [stage EXCEPT ![c] = "lookup"]
          /\ UNCHANGED verdict
       \/ /\ UseJWKS /\ tok.kid = NoKey
          /\ Concludes(c, Raises("InvalidToken"))
          /\ UNCHANGED <<time, cached, rotated>>
       \/ /\ ~UseJWKS
          /\ stage' = [stage EXCEPT ![c] = "decode"]
          /\ UNCHANGED <<time, cached, rotated, verdict>>
    /\ UNCHANGED failed

(* The key cache at work for caller c.                                     *)
Lookup(c) ==
    /\ stage[c] = "lookup"
    /\ \/ Keys!Consult(c) /\ failed' = [failed EXCEPT ![c] = (seen'[c] = 0)]
       \/ /\ Keys!Learn(c)
          /\ failed' = [failed EXCEPT ![c] = (held'.keys = {})]
       \/ (Keys!Serve(c) \/ Keys!Refuse(c)) /\ UNCHANGED failed
    /\ UNCHANGED <<request, stage, verdict, rotated>>

(* A fault of LookupFails: without a key the shared secret is tried.       *)
LookupFallsThrough(c) ==
    /\ stage[c] = "lookup" /\ phase[c] = "refused"
    /\ Keys!Leave(c)
    /\ stage' = [stage EXCEPT ![c] = "decode"]
    /\ UNCHANGED <<request, verdict, rotated, failed>>

(* Whatever get_key raises, of the SDK or not, is an InvalidToken here.    *)
LookupFails(c) ==
    /\ stage[c] = "lookup" /\ phase[c] = "refused"
    /\ Keys!Leave(c)
    /\ Concludes(c, Raises("InvalidToken"))
    /\ UNCHANGED <<request, rotated, failed>>

Check(ok) == IF ok THEN "none" ELSE "InvalidToken"

(* With a JWKS the token names its algorithm itself, and the library meets *)
(* the RSA key with that; the secret goes with one algorithm only.         *)
AlgorithmError(alg) ==
    CASE ~UseJWKS -> Check(alg = "HMAC")
      [] UseJWKS /\ alg \in {"HMAC", "EC", "unhashable"} -> "TypeError"
      [] UseJWKS /\ alg \in {"OKP", "none"} -> "InvalidKeyError"
      [] OTHER -> Check(alg = "RSA")

(* int(claim), of which the library catches ValueErrors only.              *)
IntError(t) ==
    CASE t.is \in {"null", "array"} -> "TypeError"
      [] t.is = "infinite" -> "OverflowError"
      [] OTHER -> Check(t.is # "text")

(* iat and nbf, and exp, by a clock that may have been set back.           *)
StartError(t) ==
    IF t.is = "time" THEN Check(t.at + back <= clock + Leeway) ELSE IntError(t)

(* A fault of ExpiryError: a token expires only after the leeway twice.    *)
ExpiryErrorLate(t) ==
    IF t.is = "time" THEN Check(clock < t.at + 2 * Leeway + back) ELSE IntError(t)

ExpiryError(t) ==
    IF t.is = "time" THEN Check(clock < t.at + Leeway + back) ELSE IntError(t)

(* "require" takes a null for a missing claim.                             *)
HasRequired(tok) == tok.exp.is \notin {"absent", "null"} /\ Get(tok.claims.sub) # "null"

SubAccepted(tok) == StrictSub => tok.claims.sub \in Words \cup {"empty"}

(* What jwt.decode raises with the key it is given, in the order of its    *)
(* checks, or "none".                                                      *)
DecodeError(tok, key) ==
    FirstError(<<AlgorithmError(tok.alg), Check(tok.key = key), Check(HasRequired(tok)),
                 StartError(tok.iat), StartError(tok.nbf), ExpiryError(tok.exp),
                 Check(tok.addressed), Check(SubAccepted(tok))>>)

HasType(tok) == RequiredType = "none" \/ tok.type = RequiredType

(* From a key to a principal or an error.                                  *)
Decoded(tok, e, key) ==
    LET error == IF key \in NotRSA THEN "InvalidToken" ELSE DecodeError(tok, key) IN
    CASE error # "none" -> Raises(error)
      [] error = "none" /\ HasType(tok) -> Convert(e, tok.claims)
      [] OTHER -> Raises("InvalidToken")

Decode(c) ==
    /\ \/ /\ stage[c] = "lookup" /\ phase[c] = "served"
          /\ \E key \in given[c] : Concludes(c, Decoded(token[c], entry[c], key))
          /\ Keys!Leave(c)
       \/ /\ stage[c] = "decode"
          /\ Concludes(c, Decoded(token[c], entry[c], Secret))
          /\ UNCHANGED <<time, cached>>
    /\ UNCHANGED <<request, rotated, failed>>

(* The caller goes on.                                                     *)
Done(c) ==
    /\ stage[c] = "done"
    /\ token' = [token EXCEPT ![c] = NoToken]
    /\ entry' = [entry EXCEPT ![c] = "any"]
    /\ stage' = [stage EXCEPT ![c] = "idle"]
    /\ verdict' = [verdict EXCEPT ![c] = Raises("none")]
    /\ rotated' = [rotated EXCEPT ![c] = FALSE]
    /\ failed' = [failed EXCEPT ![c] = FALSE]
    /\ UNCHANGED <<time, cached>>
-----------------------------------------------------------------------------
Rotation ==
    /\ Len(pubs) < MaxPubs
    /\ Keys!Publish
    /\ rotated' = [c \in Callers |->
                     \/ rotated[c]
                     \/ stage[c] = "lookup" /\ token[c].kid \notin Published']
    /\ UNCHANGED <<request, stage, verdict, failed>>

Tick ==
    /\ clock < MaxClock
    /\ Keys!Pass
    /\ UNCHANGED <<request, stage, verdict, rotated, failed>>

SetBack ==
    /\ back < MaxBack
    /\ Keys!SetBack
    /\ UNCHANGED <<request, stage, verdict, rotated, failed>>

(* The process and its calls are gone.                                     *)
Restart ==
    /\ Keys!Forget
    /\ token' = [c \in Callers |-> NoToken]
    /\ entry' = [c \in Callers |-> "any"]
    /\ stage' = [c \in Callers |-> "idle"]
    /\ verdict' = [c \in Callers |-> Raises("none")]
    /\ rotated' = [c \in Callers |-> FALSE]
    /\ failed' = [c \in Callers |-> FALSE]

Next ==
    \/ \E c \in Callers :
          \/ \E tok \in Tokens, e \in Entries : Validate(c, tok, e)
          \/ Lookup(c) \/ LookupFails(c) \/ Decode(c) \/ Done(c)
    \/ Rotation \/ Tick \/ SetBack \/ Restart

Spec == Init /\ [][Next]_vars
=============================================================================
