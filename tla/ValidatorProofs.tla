-------------------------- MODULE ValidatorProofs --------------------------
(***************************************************************************)
(* The verdicts of HubJWTValidator are deserved and its principals are     *)
(* coherent, for any tokens, keys, callers, rotations and restarts.        *)
(***************************************************************************)
EXTENDS ValidatorProperties, TLAPS

(* The conversions: what is no error is what the claim says.               *)
LEMMA StrictUUIDs ==
  ASSUME NEW v \in Values
  PROVE  StrictUUID(v) \in UUIDs \cup Errors /\ (StrictUUID(v) \notin Errors => StrictUUID(v) = v)
  BY Zenon DEF StrictUUID, Values, UUIDs, Falsy, Errors

LEMMA MaybeUUIDs ==
  ASSUME NEW v PROVE MaybeUUID(v) \in UUIDs \cup {"none"} \cup Errors
  BY DEF MaybeUUID, UUIDs, Errors

(* The exceptions that are not of the SDK, and which claims they come from:*)
(* a UUID that has to be one, or an int; what may be missing raises none.  *)
Escaping == Errors \ {"InvalidToken"}

LEMMA Conversions ==
  /\ \A v \in Values : StrictUUID(v) \in Escaping => v \notin Texts
  /\ \A v : MaybeUUID(v) \notin Escaping
  /\ \A v : ParseScopes(Get(v)) \notin Escaping /\ MaybeDict(Get(v)) \notin Escaping
  /\ \A v : MaybeInt(Get(v)) \in Escaping => v = "infinite"
<1>1. \A v \in Values : StrictUUID(v) \in Escaping => v \notin Texts
  BY DEF StrictUUID, Escaping, Errors, Texts, Words, UUIDs
<1>2. \A v : MaybeUUID(v) \notin Escaping
  BY DEF MaybeUUID, Escaping, Errors, UUIDs
<1>3. \A v : ParseScopes(Get(v)) \notin Escaping /\ MaybeDict(Get(v)) \notin Escaping
  BY DEF ParseScopes, MaybeDict, Get, Escaping, Errors
<1>4. \A v : MaybeInt(Get(v)) \in Escaping => v = "infinite"
  BY DEF MaybeInt, Get, Escaping, Errors
<1> QED
  BY <1>1, <1>2, <1>3, <1>4

(* Errors and identifiers are told apart by their names.                   *)
LEMMA Names ==
  /\ \A x \in Words \cup {"none"} : x \notin Errors
  /\ "user" \notin Errors /\ "client" \notin Errors
  BY DEF Words, UUIDs, Errors

LEMMA RaisesTyped ==
  ASSUME NEW e \in Errors \cup {"none"}
  PROVE  Raises(e) \in Verdicts /\ ~Accepted(Raises(e)) /\ Raises(e).result = e
  BY DEF Raises, Verdicts, Accepted, Errors

(* Of checks and conversions the first that fails decides, if one does.    *)
LEMMA LeastOf ==
  ASSUME NEW S \in SUBSET (1..8), S # {}
  PROVE  \E i \in S : \A j \in S : i <= j
<1>1. \A j \in S : j = 1 \/ j = 2 \/ j = 3 \/ j = 4 \/ j = 5 \/ j = 6 \/ j = 7 \/ j = 8
  OBVIOUS
<1>2. CASE 1 \in S \/ 2 \in S \/ 3 \in S \/ 4 \in S
  BY <1>1, <1>2
<1>3. CASE ~(1 \in S \/ 2 \in S \/ 3 \in S \/ 4 \in S)
  <2>1. \A j \in S : j = 5 \/ j = 6 \/ j = 7 \/ j = 8
    BY <1>1, <1>3
  <2>2. CASE 5 \in S \/ 6 \in S
    BY <2>1, <2>2
  <2>3. CASE S \subseteq {7, 8} /\ 7 \in S
    BY <2>3
  <2>4. CASE S \subseteq {7, 8} /\ 7 \notin S
    <3>1. S = {8}
      BY <2>4
    <3> QED
      BY <3>1
  <2> QED
    BY <2>1, <2>2, <2>3, <2>4
<1> QED
  BY <1>2, <1>3

LEMMA FirstErrors ==
  ASSUME NEW results, DOMAIN results \subseteq 1..8
  PROVE  LET error == FirstError(results) IN
         \/ error = "none" /\ \A i \in DOMAIN results : results[i] \notin Errors
         \/ \E i \in DOMAIN results :
              /\ error = results[i] /\ results[i] \in Errors
              /\ \A j \in DOMAIN results : j < i => results[j] \notin Errors
<1> DEFINE bad == {i \in DOMAIN results : results[i] \in Errors}
<1>1. CASE bad = {}
  BY <1>1 DEF FirstError
<1>2. CASE bad # {}
  <2>1. \E i \in bad : \A j \in bad : i <= j
    BY <1>2, LeastOf
  <2>2. PICK i \in bad : FirstError(results) = results[i] /\ \A j \in bad : i <= j
    BY <1>2, <2>1, Zenon DEF FirstError
  <2>3. \A j \in DOMAIN results : j < i => results[j] \notin Errors
    BY <2>2
  <2> QED
    BY <2>2, <2>3
<1> QED
  BY <1>1, <1>2

(* A principal that is not an error; and where its error comes from.       *)
LEMMA PrincipalTyped ==
  ASSUME NEW kind \in {"user", "client"}, NEW id \in Words,
         NEW account \in UUIDs \cup {"none"} \cup Errors, NEW c \in Claims
  PROVE  LET v == Principal(kind, id, account, c) IN
         /\ v \in Verdicts
         /\ Accepted(v) => v.result = kind /\ v.id = id /\ v.account = account
         /\ v.result \in Escaping => account \in Escaping \/ c.tier = "infinite"
<1> DEFINE contract == MaybeUUID(Or(c.active_contract_id, c.contract_id))
           scopes == ParseScopes(Get(c.scopes))
           tier == MaybeInt(Get(c.tier))
           policy == MaybeDict(Get(c.policy))
           results == <<contract, account, scopes, tier, policy>>
           error == FirstError(results)
<1>1. /\ contract \in UUIDs \cup {"none"} \cup Errors
      /\ contract \notin Escaping /\ scopes \notin Escaping /\ policy \notin Escaping
      /\ tier \in Escaping => c.tier = "infinite"
  BY MaybeUUIDs, Conversions
<1> HIDE DEF contract, scopes, tier, policy
<1>2. \/ error = "none" /\ contract \notin Errors /\ account \notin Errors
      \/ error \in Errors /\ error \in {contract, account, scopes, tier, policy}
  <2>1. DOMAIN results = 1..5 /\ DOMAIN results \subseteq 1..8
    OBVIOUS
  <2>2. /\ results[1] = contract /\ results[2] = account /\ results[3] = scopes
        /\ results[4] = tier /\ results[5] = policy
    OBVIOUS
  <2> HIDE DEF results
  <2>3. \/ error = "none" /\ \A i \in DOMAIN results : results[i] \notin Errors
        \/ \E i \in DOMAIN results : error = results[i] /\ results[i] \in Errors
    BY <2>1, FirstErrors
  <2> QED
    BY <2>1, <2>2, <2>3
<1>3. CASE error # "none"
  <2>1. Principal(kind, id, account, c) = Raises(error)
    BY <1>3, Zenon DEF Principal, contract, scopes, tier, policy
  <2> QED
    BY <1>1, <1>2, <1>3, <2>1, RaisesTyped
<1>4. CASE error = "none"
  <2>1. Principal(kind, id, account, c) =
          [result |-> kind, id |-> id, account |-> account, contract |-> contract]
    BY <1>4, Zenon DEF Principal, contract, scopes, tier, policy
  <2>2. contract \notin Errors /\ account \notin Errors /\ kind \notin Escaping
    BY <1>2, <1>4 DEF Errors, Escaping
  <2> QED
    BY <1>1, <2>1, <2>2 DEF Verdicts
<1> QED
  BY <1>3, <1>4

LEMMA UserTyped ==
  ASSUME NEW c \in Claims
  PROVE  LET v == UserPrincipal(c) IN
         /\ v \in Verdicts
         /\ Accepted(v) => v.result = "user" /\ v.id = c.sub /\ v.id \in UUIDs
         /\ v.result \in Escaping => c.sub \notin Texts \/ c.tier = "infinite"
<1>1. c.sub \in Values
  BY DEF Claims
<1>2. CASE StrictUUID(c.sub) \in Errors
  BY <1>1, <1>2, RaisesTyped, Conversions DEF UserPrincipal
<1>3. CASE StrictUUID(c.sub) \notin Errors
  <2>1. StrictUUID(c.sub) \in UUIDs /\ StrictUUID(c.sub) = c.sub
    BY <1>1, <1>3, StrictUUIDs
  <2> DEFINE account == MaybeUUID(Or(c.active_account_id, c.account_id))
  <2>2. account \in UUIDs \cup {"none"} \cup Errors /\ account \notin Escaping
    BY MaybeUUIDs, Conversions
  <2>3. UserPrincipal(c) = Principal("user", c.sub, account, c)
    BY <1>3, <2>1 DEF UserPrincipal
  <2> HIDE DEF account
  <2> QED
    BY <2>1, <2>2, <2>3, PrincipalTyped DEF Words
<1> QED
  BY <1>2, <1>3

LEMMA ClientTyped ==
  ASSUME NEW c \in Claims
  PROVE  LET v == ClientPrincipal(c) IN
         /\ v \in Verdicts
         /\ Accepted(v) => /\ v.result = "client" /\ v.id = c.sub
                           /\ v.account = c.account_id /\ v.account \in UUIDs
         /\ v.result \in Escaping => c.account_id \notin Texts \/ c.tier = "infinite"
<1>1. c.account_id \in Values /\ c.sub \in Values
  BY DEF Claims
<1>2. CASE Get(c.sub) \notin Words
  <2>1. ClientPrincipal(c) = Raises("InvalidToken")
    BY <1>2 DEF ClientPrincipal
  <2> QED
    BY <2>1, RaisesTyped DEF Errors, Escaping
<1>3. CASE Get(c.sub) \in Words /\ StrictUUID(c.account_id) \in Errors
  <2>1. ClientPrincipal(c) = Raises(StrictUUID(c.account_id))
    BY <1>3 DEF ClientPrincipal
  <2> QED
    BY <1>1, <1>3, <2>1, RaisesTyped, Conversions
<1>4. CASE Get(c.sub) \in Words /\ StrictUUID(c.account_id) \notin Errors
  <2>1. StrictUUID(c.account_id) \in UUIDs /\ StrictUUID(c.account_id) = c.account_id
    BY <1>1, <1>4, StrictUUIDs
  <2>2. c.sub \in Words
    BY <1>4 DEF Get, Words, UUIDs
  <2>3. ClientPrincipal(c) = Principal("client", c.sub, c.account_id, c)
    BY <1>4, <2>1 DEF ClientPrincipal
  <2>4. c.account_id \notin Escaping
    BY <2>1, Names DEF Escaping, Words
  <2> QED
    BY <2>1, <2>2, <2>3, <2>4, PrincipalTyped
<1> QED
  BY <1>2, <1>3, <1>4

(* The methods: each is one of the two conversions, or rejects.            *)
LEMMA ConvertCases ==
  ASSUME NEW e \in Entries, NEW c \in Claims
  PROVE  \/ Convert(e, c) = Raises("InvalidToken") /\ e # "any"
         \/ Convert(e, c) = ClientPrincipal(c) /\ IsClient(c) /\ e # "user"
         \/ Convert(e, c) = UserPrincipal(c) /\ ~IsClient(c) /\ e # "client"
  BY DEF Convert, Entries

LEMMA ConvertTyped ==
  ASSUME NEW e \in Entries, NEW c \in Claims
  PROVE  Convert(e, c) \in Verdicts
  BY ConvertCases, UserTyped, ClientTyped, RaisesTyped DEF Errors
-----------------------------------------------------------------------------
LEMMA ElementOfSeq ==
  ASSUME NEW S, NEW s \in Seq(S), NEW i \in 1..Len(s)
  PROVE  s[i] \in S /\ i \in Nat
  OBVIOUS

LEMMA PublicationTyped ==
  ASSUME CacheTypes, NEW v \in 1..Len(pubs)
  PROVE  pubs[v].keys \subseteq Kids /\ pubs[v].at \in Nat
<1>1. pubs[v] \in [keys : SUBSET Kids, at : Nat]
  BY ElementOfSeq DEF CacheTypes
<1> QED
  BY <1>1

(* What is held has been published.                                        *)
LEMMA HeldWasPublished ==
  ASSUME CacheTypes, HeldInv, NEW k \in held.keys
  PROVE  WasPublished(k)
  BY DEF CacheTypes, HeldInv, WasPublished

LEMMA TokensTyped ==
  ASSUME NEW tok \in Tokens
  PROVE  tok.claims \in Claims
  BY TokensAssumption

(* Nothing need be said for an InvalidToken, or for no verdict yet.        *)
LEMMA InvalidIsDeserved ==
  ASSUME NEW tok, NEW e, NEW x \in {"none", "InvalidToken"}
  PROVE  Deserved(tok, e, Raises(x))
  BY RaisesTyped DEF Deserved, Errors

(* What the checks of a token raise, and at which.                         *)
LEMMA AlgorithmErrors ==
  ASSUME NEW alg
  PROVE  LET error == AlgorithmError(alg) IN
         /\ error \in Errors \cup {"none"}
         /\ error = "none" <=> alg = IF UseJWKS THEN "RSA" ELSE "HMAC"
         /\ error \in Escaping => UseJWKS /\ alg \notin {"RSA", "unknown"}
BY ModeAssumption DEF AlgorithmError, Check, Errors, Escaping

LEMMA TimeErrors ==
  ASSUME NEW t, NEW error \in {StartError(t), ExpiryError(t)}
  PROVE  /\ error \in Errors \cup {"none"}
         /\ error \in Escaping => t.is \in {"null", "infinite", "array"}
BY DEF StartError, ExpiryError, IntError, Check, Errors, Escaping

LEMMA Checks ==
  ASSUME NEW ok \in BOOLEAN
  PROVE  /\ Check(ok) \in {"none", "InvalidToken"} /\ Check(ok) \notin Escaping
         /\ Check(ok) \notin Errors <=> ok
BY DEF Check, Errors, Escaping

(* A token passes when it passes each check; and only an odd one makes the *)
(* library raise another exception than those it should.                   *)
LEMMA DecodeErrors ==
  ASSUME NEW tok \in Tokens, NEW key
  PROVE  LET error == DecodeError(tok, key) IN
         /\ error \in Errors \cup {"none"}
         /\ error = "none" <=>
               /\ tok.alg = IF UseJWKS THEN "RSA" ELSE "HMAC"
               /\ tok.key = key /\ HasRequired(tok)
               /\ StartError(tok.iat) = "none" /\ StartError(tok.nbf) = "none"
               /\ ExpiryError(tok.exp) = "none"
               /\ tok.addressed /\ SubAccepted(tok)
         /\ error \in Escaping => OddTimes(tok) \/ OddAlgorithm(tok)
<1> DEFINE alg == AlgorithmError(tok.alg)
           signed == Check(tok.key = key)
           required == Check(HasRequired(tok))
           iat == StartError(tok.iat)
           nbf == StartError(tok.nbf)
           exp == ExpiryError(tok.exp)
           addressed == Check(tok.addressed)
           subject == Check(SubAccepted(tok))
           results == <<alg, signed, required, iat, nbf, exp, addressed, subject>>
           error == DecodeError(tok, key)
<1>1. /\ alg \in Errors \cup {"none"} /\ iat \in Errors \cup {"none"}
      /\ nbf \in Errors \cup {"none"} /\ exp \in Errors \cup {"none"}
      /\ alg = "none" <=> tok.alg = IF UseJWKS THEN "RSA" ELSE "HMAC"
  BY AlgorithmErrors, TimeErrors
<1>2. /\ alg \in Escaping => OddAlgorithm(tok)
      /\ iat \in Escaping \/ nbf \in Escaping => OddTimes(tok)
      /\ exp \in Escaping /\ HasRequired(tok) => OddTimes(tok)
  <2>1. alg \in Escaping => OddAlgorithm(tok)
    BY AlgorithmErrors DEF OddAlgorithm
  <2>2. iat \in Escaping \/ nbf \in Escaping => OddTimes(tok)
    BY TimeErrors, Zenon DEF OddTimes
  <2>3. exp \in Escaping => tok.exp.is \in {"null", "infinite", "array"}
    BY TimeErrors
  <2> QED
    BY <2>1, <2>2, <2>3 DEF OddTimes, HasRequired
<1>3. tok.addressed \in BOOLEAN
  BY TokensAssumption
<1>4. /\ signed \in Errors \cup {"none"} /\ signed \notin Escaping
      /\ required \in Errors \cup {"none"} /\ required \notin Escaping
      /\ addressed \in Errors \cup {"none"} /\ addressed \notin Escaping
      /\ subject \in Errors \cup {"none"} /\ subject \notin Escaping
      /\ signed \notin Errors <=> tok.key = key
      /\ required \notin Errors <=> HasRequired(tok)
      /\ addressed \notin Errors <=> tok.addressed
      /\ subject \notin Errors <=> SubAccepted(tok)
  <2>1. HasRequired(tok) \in BOOLEAN /\ SubAccepted(tok) \in BOOLEAN
    BY DEF HasRequired, SubAccepted
  <2> QED
    BY <1>3, <2>1, Checks DEF Errors
<1>5. error = FirstError(results)
  BY DEF DecodeError
<1> HIDE DEF alg, signed, required, iat, nbf, exp, addressed, subject, error
<1>6. DOMAIN results = 1..8
  OBVIOUS
<1>7. /\ results[1] = alg /\ results[2] = signed /\ results[3] = required
      /\ results[4] = iat /\ results[5] = nbf /\ results[6] = exp
      /\ results[7] = addressed /\ results[8] = subject
  OBVIOUS
<1> HIDE DEF results
<1>8. \/ error = "none" /\ \A i \in 1..8 : results[i] \notin Errors
      \/ \E i \in 1..8 : /\ error = results[i] /\ results[i] \in Errors
                        /\ \A j \in 1..8 : j < i => results[j] \notin Errors
  BY <1>5, <1>6, FirstErrors
<1>9. "none" \notin Errors
  BY DEF Errors
<1>10. CASE error = "none" /\ \A i \in 1..8 : results[i] \notin Errors
  <2>1. error \notin Escaping
    BY <1>9, <1>10 DEF Escaping
  <2> QED
    BY <1>1, <1>4, <1>7, <1>10, <2>1 DEF iat, nbf, exp, error
<1>11. ASSUME NEW i \in 1..8, error = results[i], results[i] \in Errors,
              \A j \in 1..8 : j < i => results[j] \notin Errors
       PROVE  /\ error \in Errors
              /\ ~(/\ alg = "none" /\ iat = "none" /\ nbf = "none" /\ exp = "none"
                   /\ tok.key = key /\ HasRequired(tok) /\ tok.addressed /\ SubAccepted(tok))
              /\ error \in Escaping => OddTimes(tok) \/ OddAlgorithm(tok)
  <2>1. i = 6 => HasRequired(tok)
    BY <1>4, <1>7, <1>11
  <2>2. \/ error \in {alg, signed, required, iat, nbf, addressed, subject}
        \/ i = 6 /\ error = exp
    <3>1. \/ i = 1 \/ i = 2 \/ i = 3 \/ i = 4 \/ i = 5 \/ i = 6 \/ i = 7 \/ i = 8
      OBVIOUS
    <3> QED
      BY <1>7, <1>11, <3>1
  <2> QED
    BY <1>2, <1>4, <1>9, <1>11, <2>1, <2>2
<1> QED
  BY <1>1, <1>8, <1>9, <1>10, <1>11 DEF iat, nbf, exp, error

LEMMA DecodedTyped ==
  ASSUME NEW tok \in Tokens, NEW e \in Entries, NEW key
  PROVE  /\ Decoded(tok, e, key) \in Verdicts
         /\ Deserved(tok, e, Decoded(tok, e, key))
         /\ Accepted(Decoded(tok, e, key)) =>
               key \notin NotRSA /\ DecodeError(tok, key) = "none" /\ HasType(tok)
<1> DEFINE error == IF key \in NotRSA THEN "InvalidToken" ELSE DecodeError(tok, key)
<1>1. /\ error \in Errors \cup {"none"}
      /\ error \in Escaping => OddTimes(tok) \/ OddAlgorithm(tok)
      /\ error = "none" => /\ key \notin NotRSA /\ DecodeError(tok, key) = "none"
                           /\ HasRequired(tok) /\ SubAccepted(tok)
  BY DecodeErrors DEF Errors, Escaping
<1>2. Convert(e, tok.claims) \in Verdicts
  BY TokensTyped, ConvertTyped
<1> HIDE DEF error
<1>3. \A x \in Errors : /\ Raises(x) \in Verdicts /\ ~Accepted(Raises(x))
                         /\ Raises(x).result = x
  BY RaisesTyped
<1>4. CASE error # "none"
  <2>1. Decoded(tok, e, key) = Raises(error)
    BY <1>4 DEF Decoded, error
  <2>2. Deserved(tok, e, Raises(error))
    BY <1>1, <1>3, <1>4 DEF Deserved, Escaping
  <2> QED
    BY <1>1, <1>3, <1>4, <2>1, <2>2
<1>5. CASE error = "none" /\ HasType(tok)
  <2>1. Decoded(tok, e, key) = Convert(e, tok.claims)
    BY <1>5 DEF Decoded, error
  <2> QED
    BY <1>1, <1>2, <1>5, <2>1 DEF Deserved
<1>6. CASE error = "none" /\ ~HasType(tok)
  <2>1. Decoded(tok, e, key) = Raises("InvalidToken")
    BY <1>6 DEF Decoded, error
  <2>2. "InvalidToken" \in Errors /\ Deserved(tok, e, Raises("InvalidToken"))
    BY InvalidIsDeserved DEF Errors
  <2> QED
    BY <1>3, <2>1, <2>2
<1> QED
  BY <1>4, <1>5, <1>6

(* A token that passes the checks of decoding is genuine for its key.      *)
LEMMA DecodedIsGenuine ==
  ASSUME NEW tok \in Tokens, NEW key, DecodeError(tok, key) = "none", HasType(tok),
         UseJWKS => key = tok.kid /\ key \in Kids \ NotRSA,
         ~UseJWKS => key = Secret
  PROVE  Genuine(tok)
<1>1. /\ tok.alg = IF UseJWKS THEN "RSA" ELSE "HMAC"
      /\ tok.key = key /\ HasRequired(tok) /\ tok.addressed
      /\ StartError(tok.iat) = "none" /\ StartError(tok.nbf) = "none"
      /\ ExpiryError(tok.exp) = "none"
  BY DecodeErrors
<1>2. tok.iat \in TimeClaims /\ tok.nbf \in TimeClaims /\ tok.exp \in TimeClaims
  BY TokensAssumption
<1>3. ASSUME NEW start \in TimeClaims, StartError(start) = "none"
      PROVE  \/ start.is = "absent"
             \/ start.is = "time" /\ start.at + back <= clock + Leeway
  BY <1>3 DEF StartError, IntError, Check, TimeClaims
<1>4. tok.exp.is = "time" /\ clock < tok.exp.at + Leeway + back
  BY <1>1, <1>2 DEF ExpiryError, IntError, Check, TimeClaims, HasRequired
<1> QED
  BY <1>1, <1>2, <1>3, <1>4, ModeAssumption DEF Genuine

(* A call that does not move, while the cache and the realm stay or another*)
(* caller learns, knows what it knew.                                      *)
LEMMA Bystander ==
  ASSUME NEW d \in Callers, CallOK(d), clock' = clock, pubs' = pubs,
         held' = held \/ phase[d] # "learnt",
         UNCHANGED <<stage[d], phase[d], want[d], seen[d], heard[d], given[d], token[d],
                     entry[d], verdict[d], rotated[d], failed[d]>>
  PROVE  CallOK(d)'
  BY DEF CallOK, CurrentAt, WasPublished, Published

(* The step of one caller: the others are bystanders.                      *)
LEMMA OneCaller ==
  ASSUME VInv, NEW c \in Callers, clock' = clock, pubs' = pubs,
         held' = held \/ \A d \in Callers : phase[d] # "learnt",
         \A d \in Callers \ {c} :
            UNCHANGED <<stage[d], phase[d], want[d], seen[d], heard[d], given[d], token[d],
                        entry[d], verdict[d], rotated[d], failed[d]>>,
         CallOK(c)'
  PROVE  CallInv'
<1>1. ASSUME NEW d \in Callers \ {c} PROVE CallOK(d)'
  <2>1. CallOK(d)
    BY DEF VInv, CallInv
  <2> QED
    BY <2>1, Bystander
<1> QED
  BY <1>1 DEF CallInv
-----------------------------------------------------------------------------
LEMMA InitVInv == Init => VInv
<1> SUFFICES ASSUME Init PROVE VInv
  OBVIOUS
<1>1. PICK K \in (SUBSET Kids) \ {{}} : pubs = <<[keys |-> K, at |-> 0]>>
  BY DEF Init, Keys!KCInit
<1>2. Raises("none") \in Verdicts /\ ~Accepted(Raises("none"))
  BY RaisesTyped
<1>3. TypeOK
  BY <1>2 DEF Init, TypeOK, OrNone, Entries
<1>4. /\ clock = TTL + 1 /\ back = 0 /\ confirmed = 0 /\ held = [keys |-> {}, ver |-> 0]
      /\ phase = [c \in Callers |-> "none"] /\ want = [c \in Callers |-> AllKeys]
      /\ seen = [c \in Callers |-> 0] /\ heard = [c \in Callers |-> 0]
      /\ given = [c \in Callers |-> {}]
  BY DEF Init, Keys!KCInit
<1>5. CacheTypes
  BY <1>1, <1>4, TimeAssumption DEF CacheTypes
<1>6. HeldInv
  BY <1>1, <1>4, TimeAssumption DEF HeldInv
<1>7. CallInv
  BY <1>1, <1>2, <1>4, InvalidIsDeserved DEF Init, CallInv, CallOK
<1> QED
  BY <1>3, <1>5, <1>6, <1>7 DEF VInv

LEMMA ValidateKeeps ==
  ASSUME VInv, NEW c \in Callers, NEW tok \in Tokens, NEW e \in Entries,
         Validate(c, tok, e)
  PROVE  VInv'
<1> USE DEF VInv
<1>1. CallOK(c) /\ stage[c] = "idle" /\ phase[c] = "none"
  BY DEF CallInv, CallOK, Validate
<1>2. /\ token' = [token EXCEPT ![c] = tok] /\ entry' = [entry EXCEPT ![c] = e]
      /\ failed' = failed
  BY DEF Validate
<1>3. CASE UseJWKS /\ tok.kid \in Kids /\ Keys!Ask(c, tok.kid)
           /\ rotated' = [rotated EXCEPT ![c] = tok.kid \notin Published]
           /\ stage' = [stage EXCEPT ![c] = "lookup"] /\ verdict' = verdict
  <2>1. /\ phase' = [phase EXCEPT ![c] = "asked"] /\ want' = [want EXCEPT ![c] = tok.kid]
        /\ UNCHANGED <<clock, back, pubs, held, confirmed, seen, heard, given>>
    BY <1>3 DEF Keys!Ask, Keys!Becomes
  <2>2. TypeOK' /\ CacheTypes' /\ HeldInv'
    BY <1>2, <1>3, <2>1 DEF TypeOK, OrNone, CacheTypes, HeldInv, WasPublished
  <2>a. token'[c] = tok /\ verdict'[c] = Raises("none") /\ stage'[c] = "lookup"
    BY <1>1, <1>2, <1>3 DEF CallOK, TypeOK
  <2>b. Deserved(token[c], entry[c], verdict[c])' /\ ~Accepted(verdict'[c])
    BY <2>a, InvalidIsDeserved, RaisesTyped
  <2>3. CallOK(c)'
    BY <1>1, <1>2, <1>3, <2>1, <2>a, <2>b
    DEF CallOK, CurrentAt, TypeOK, OrNone, CacheTypes, WasPublished, Published
  <2>4. CallInv'
    BY <1>2, <1>3, <2>1, <2>3, OneCaller DEF TypeOK, OrNone, CacheTypes
  <2> QED
    BY <2>2, <2>4
<1>4. CASE /\ stage' = [stage EXCEPT ![c] = IF UseJWKS THEN "done" ELSE "decode"]
           /\ verdict' \in {verdict, [verdict EXCEPT ![c] = Raises("InvalidToken")]}
           /\ verdict' = verdict \/ UseJWKS
           /\ UNCHANGED <<time, cached, rotated>>
  <2>1. Raises("InvalidToken") \in Verdicts /\ ~Accepted(Raises("InvalidToken"))
        /\ ~Accepted(Raises("none"))
    BY RaisesTyped DEF Errors
  <2>a. verdict' \in [Callers -> Verdicts]
    BY <1>4, <2>1 DEF TypeOK
  <2>b. stage' \in [Callers -> {"idle", "lookup", "decode", "done"}]
    BY <1>4 DEF TypeOK
  <2>2. TypeOK' /\ CacheTypes' /\ HeldInv'
    BY <1>2, <1>4, <2>a, <2>b DEF TypeOK, OrNone, CacheTypes, HeldInv, WasPublished, time, cached
  <2>3. CallOK(c)'
    BY <1>1, <1>2, <1>4, <2>1, ModeAssumption, InvalidIsDeserved
    DEF CallOK, CurrentAt, TypeOK, OrNone, CacheTypes, WasPublished, Published, time, cached
  <2>4. CallInv'
    BY <1>2, <1>4, <2>3, OneCaller DEF TypeOK, OrNone, CacheTypes, time, cached
  <2> QED
    BY <2>2, <2>4
<1> QED
  BY <1>3, <1>4 DEF Validate, Concludes

(* The key cache consults, learns, serves or refuses.                      *)
LEMMA LookupKeeps ==
  ASSUME VInv, NEW c \in Callers, Lookup(c)
  PROVE  VInv'
<1> USE DEF VInv
<1>1. CallOK(c) /\ stage[c] = "lookup" /\ want[c] = token[c].kid /\ want[c] \in Kids
  BY DEF CallInv, CallOK, Lookup
<1>2. UNCHANGED <<token, entry, stage, verdict, rotated>>
  BY DEF Lookup, request
<1>3. CASE Keys!Consult(c) /\ failed' = [failed EXCEPT ![c] = (seen'[c] = 0)]
  <2>1. /\ phase[c] = "asked" /\ phase' = [phase EXCEPT ![c] = "consulted"]
        /\ \E v \in {0, Len(pubs)} :
              /\ seen' = [seen EXCEPT ![c] = v]
              /\ heard' = [heard EXCEPT ![c] = IF v = 0 THEN 0 ELSE clock]
        /\ UNCHANGED <<clock, back, pubs, held, confirmed, want, given>>
    BY <1>3 DEF Keys!Consult, Keys!Becomes
  <2>2. TypeOK' /\ CacheTypes' /\ HeldInv'
    BY <1>2, <1>3, <2>1 DEF TypeOK, OrNone, CacheTypes, HeldInv, WasPublished
  <2>a. /\ seen'[c] \in {0, Len(pubs)} /\ (failed'[c] <=> seen'[c] = 0)
        /\ phase'[c] = "consulted" /\ Len(pubs) \in Nat
        /\ heard'[c] = IF seen'[c] = 0 THEN 0 ELSE clock
    <3>1. failed'[c] <=> seen'[c] = 0
      BY <1>3, Zenon DEF TypeOK
    <3>2. /\ seen'[c] \in {0, Len(pubs)} /\ phase'[c] = "consulted" /\ Len(pubs) \in Nat
          /\ heard'[c] = IF seen'[c] = 0 THEN 0 ELSE clock
      BY <2>1 DEF CacheTypes
    <3> QED
      BY <3>1, <3>2
  <2>b. ~rotated[c] => token[c].kid \in pubs[Len(pubs)].keys
    BY <1>1, <2>1 DEF CallOK, Published
  <2>c. ~rotated[c] /\ seen'[c] # 0 =>
           \A w \in seen'[c]..Len(pubs) : token[c].kid \in pubs[w].keys
    BY <2>a, <2>b
  <2>d. /\ heard'[c] # 0 <=> seen'[c] # 0
        /\ heard'[c] # 0 => heard'[c] = clock /\ seen'[c] = Len(pubs)
    BY <2>a, TimeAssumption DEF CacheTypes
  <2>3. CallOK(c)'
    BY <1>1, <1>2, <2>1, <2>a, <2>b, <2>c, <2>d, TimeAssumption
    DEF CallOK, CurrentAt, TypeOK, OrNone, CacheTypes, WasPublished, Published
  <2>4. CallInv'
    BY <1>2, <1>3, <2>1, <2>3, OneCaller DEF TypeOK, OrNone, CacheTypes
  <2> QED
    BY <2>2, <2>4
<1>4. CASE Keys!Learn(c) /\ failed' = [failed EXCEPT ![c] = (held'.keys = {})]
  <2>1. /\ phase[c] = "consulted" /\ phase' = [phase EXCEPT ![c] = "learnt"]
        /\ \A d \in Callers : phase[d] # "learnt"
        /\ seen[c] # 0 /\ confirmed' = clock /\ heard' = [heard EXCEPT ![c] = 0]
        /\ UNCHANGED <<clock, back, pubs, want, seen, given>>
    BY <1>4 DEF Keys!Learn, Keys!Becomes
  <2>2. PICK K \in Keys!SetsOf(seen[c]) : held' = [keys |-> K, ver |-> seen[c]]
    BY <1>4 DEF Keys!Learn
  <2>3. seen[c] \in 1..Len(pubs) /\ K \in {{}, pubs[seen[c]].keys}
    BY <1>1, <2>1, <2>2 DEF CallOK, CacheTypes, Keys!SetsOf
  <2>a. held' \in [keys : SUBSET Kids, ver : Nat]
    <3>1. pubs[seen[c]] \in [keys : SUBSET Kids, at : Nat] /\ seen[c] \in Nat
      <4>1. pubs \in Seq([keys : SUBSET Kids, at : Nat]) /\ seen[c] \in 1..Len(pubs)
        BY <2>3 DEF CacheTypes
      <4> QED
        BY <4>1, ElementOfSeq
    <3>2. K \in SUBSET Kids
      BY <2>3, <3>1
    <3> QED
      BY <2>2, <3>1, <3>2
  <2>b. failed' \in [Callers -> BOOLEAN]
    BY <1>4, Zenon DEF TypeOK
  <2>4. TypeOK' /\ CacheTypes'
    BY <1>2, <2>1, <2>a, <2>b DEF TypeOK, OrNone, CacheTypes
  <2>5. HeldInv'
    <3>1. \A w \in seen[c]+1..Len(pubs) : clock <= pubs[w].at + Lag
      <4>1. /\ heard[c] \in Nat /\ clock <= heard[c] + Lag
            /\ \A w \in seen[c]+1..Len(pubs) : heard[c] <= pubs[w].at
        BY <1>1, <2>1 DEF CallOK, CurrentAt, CacheTypes
      <4>2. \A w \in seen[c]+1..Len(pubs) : pubs[w].at \in Nat
        BY <2>3, PublicationTyped
      <4> QED
        BY <4>1, <4>2, TimeAssumption DEF CacheTypes
    <3>2. \A w \in seen[c]+1..Len(pubs) : clock <= pubs[w].at + Lag + back
      <4>1. ASSUME NEW w \in seen[c]+1..Len(pubs) PROVE clock <= pubs[w].at + Lag + back
        <5>1. pubs[w].at \in Nat /\ clock <= pubs[w].at + Lag
          BY <3>1, <2>3, PublicationTyped
        <5> QED
          BY <5>1, TimeAssumption DEF CacheTypes
      <4> QED
        BY <4>1
    <3> QED
      BY <2>1, <2>2, <2>3, <3>2 DEF HeldInv, CacheTypes
  <2>6. failed'[c] = (K = {}) /\ held'.keys = K
    BY <1>4, <2>2 DEF TypeOK
  <2>7. ~rotated[c] /\ K # {} => token[c].kid \in K
    <3>1. ~rotated[c] => \A w \in seen[c]..Len(pubs) : token[c].kid \in pubs[w].keys
      BY <1>1, <2>1 DEF CallOK
    <3>2. seen[c] \in seen[c]..Len(pubs)
      BY <2>3
    <3> QED
      BY <2>3, <3>1, <3>2
  <2>8. CallOK(c)'
    BY <1>1, <1>2, <2>1, <2>6, <2>7
    DEF CallOK, CurrentAt, TypeOK, OrNone, CacheTypes, WasPublished, Published
  <2>9. CallInv'
    BY <1>2, <1>4, <2>1, <2>8, OneCaller DEF TypeOK, OrNone, CacheTypes
  <2> QED
    BY <2>4, <2>5, <2>9
<1>5. CASE Keys!Serve(c) /\ failed' = failed
  <2>1. /\ want[c] \in held.keys /\ given' = [given EXCEPT ![c] = {want[c]}]
        /\ seen' = [seen EXCEPT ![c] = 0] /\ phase' = [phase EXCEPT ![c] = "served"]
        /\ phase[c] # "none" /\ ~(phase[c] = "consulted" /\ seen[c] # 0)
        /\ UNCHANGED <<clock, back, pubs, held, confirmed, want, heard>>
    BY <1>1, <1>5, KeysAssumption DEF Keys!Serve, Keys!Becomes
  <2>2. TypeOK' /\ CacheTypes' /\ HeldInv'
    BY <1>1, <1>2, <1>5, <2>1 DEF TypeOK, OrNone, CacheTypes, HeldInv, WasPublished
  <2>a. /\ WasPublished(token[c].kid) /\ given'[c] = {token[c].kid}
        /\ phase'[c] = "served" /\ seen'[c] = 0 /\ heard'[c] = 0
    BY <1>1, <2>1, HeldWasPublished DEF CacheTypes, CallOK
  <2>3. CallOK(c)'
    BY <1>1, <1>2, <1>5, <2>1, <2>a
    DEF CallOK, CurrentAt, CacheTypes, WasPublished, Published
  <2>4. CallInv'
    BY <1>2, <1>5, <2>1, <2>3, OneCaller DEF TypeOK, OrNone, CacheTypes
  <2> QED
    BY <2>2, <2>4
<1>6. CASE Keys!Refuse(c) /\ failed' = failed
  <2>1. /\ \/ phase[c] = "consulted" /\ seen[c] = 0
           \/ phase[c] = "learnt" /\ want[c] \notin held.keys
        /\ seen' = [seen EXCEPT ![c] = 0] /\ phase' = [phase EXCEPT ![c] = "refused"]
        /\ UNCHANGED <<clock, back, pubs, held, confirmed, want, heard, given>>
    BY <1>6 DEF Keys!Refuse, Keys!Becomes
  <2>2. TypeOK' /\ CacheTypes' /\ HeldInv'
    BY <1>2, <1>6, <2>1 DEF TypeOK, OrNone, CacheTypes, HeldInv, WasPublished
  <2>3. CallOK(c)'
    BY <1>1, <1>2, <1>6, <2>1
    DEF CallOK, CurrentAt, TypeOK, OrNone, CacheTypes, WasPublished, Published
  <2>4. CallInv'
    BY <1>2, <1>6, <2>1, <2>3, OneCaller DEF TypeOK, OrNone, CacheTypes
  <2> QED
    BY <2>2, <2>4
<1> QED
  BY <1>3, <1>4, <1>5, <1>6 DEF Lookup

(* A call ends with its verdict.                                           *)
LEMMA ConcludesKeeps ==
  ASSUME VInv, NEW c \in Callers, NEW v \in Verdicts, Concludes(c, v),
         Deserved(token[c], entry[c], v),
         UNCHANGED <<token, entry, rotated, failed>>,
         \/ UNCHANGED <<time, cached>> /\ stage[c] = "decode"
         \/ Keys!Leave(c)
  PROVE  VInv'
<1> USE DEF VInv
<1>1. /\ stage' = [stage EXCEPT ![c] = "done"] /\ verdict' = [verdict EXCEPT ![c] = v]
  BY DEF Concludes
<1>2. UNCHANGED <<clock, back, pubs, held, confirmed, seen, heard>>
  BY DEF time, cached, Keys!Leave
<1>3. /\ phase' \in {phase, [phase EXCEPT ![c] = "none"]} /\ phase'[c] = "none"
      /\ heard[c] = 0
      /\ want' \in {want, [want EXCEPT ![c] = AllKeys]}
      /\ given' \in {given, [given EXCEPT ![c] = {}]}
  <2>1. CASE UNCHANGED <<time, cached>> /\ stage[c] = "decode"
    BY <2>1 DEF time, cached, CallInv, CallOK
  <2>2. CASE Keys!Leave(c)
    BY <2>2 DEF Keys!Leave, Keys!Becomes, CacheTypes, CallInv, CallOK
  <2> QED
    BY <2>1, <2>2
<1>4. phase' \in [Callers -> {"none", "asked", "consulted", "learnt", "served", "refused"}]
  BY <1>3 DEF CacheTypes
<1>5. want' \in [Callers -> Kids \cup {AllKeys}] /\ given' \in [Callers -> SUBSET Kids]
  BY <1>3 DEF CacheTypes
<1>6. TypeOK' /\ CacheTypes' /\ HeldInv'
  BY <1>1, <1>2, <1>4, <1>5 DEF TypeOK, OrNone, CacheTypes, HeldInv, WasPublished
<1>7. CallOK(c)
  BY DEF CallInv
<1>8. stage'[c] = "done" /\ verdict'[c] = v
  BY <1>1 DEF TypeOK
<1>9. CallOK(c)'
  BY <1>2, <1>3, <1>7, <1>8 DEF CallOK
<1>10. \A d \in Callers \ {c} :
          UNCHANGED <<stage[d], phase[d], want[d], seen[d], heard[d], given[d], verdict[d]>>
  BY <1>1, <1>2, <1>3 DEF TypeOK, OrNone, CacheTypes
<1>11. CallInv'
  BY <1>2, <1>9, <1>10, OneCaller
<1> QED
  BY <1>6, <1>11

(* A caller brings tokens of Tokens.                                       *)
LEMMA BroughtToken ==
  ASSUME VInv, NEW c \in Callers, stage[c] \in {"lookup", "decode"}
  PROVE  token[c] \in Tokens /\ entry[c] \in Entries
  BY DEF VInv, CallInv, CallOK, TypeOK

LEMMA LookupFailsKeeps ==
  ASSUME VInv, NEW c \in Callers, LookupFails(c)
  PROVE  VInv'
<1>1. /\ Raises("InvalidToken") \in Verdicts
      /\ Deserved(token[c], entry[c], Raises("InvalidToken"))
  BY RaisesTyped, InvalidIsDeserved DEF Errors
<1> QED
  BY <1>1, ConcludesKeeps DEF LookupFails, request

LEMMA DecodeKeeps ==
  ASSUME VInv, NEW c \in Callers, Decode(c)
  PROVE  VInv'
<1>1. token[c] \in Tokens /\ entry[c] \in Entries
  BY BroughtToken DEF Decode
<1>2. PICK key : Concludes(c, Decoded(token[c], entry[c], key))
  BY DEF Decode
<1>3. /\ Decoded(token[c], entry[c], key) \in Verdicts
      /\ Deserved(token[c], entry[c], Decoded(token[c], entry[c], key))
  BY <1>1, DecodedTyped
<1>4. /\ \/ UNCHANGED <<time, cached>> /\ stage[c] = "decode"
         \/ Keys!Leave(c)
      /\ UNCHANGED <<token, entry, rotated, failed>>
  BY DEF Decode, request
<1> HIDE DEF Decoded
<1> QED
  BY <1>1, <1>2, <1>3, <1>4, ConcludesKeeps

LEMMA DoneKeeps ==
  ASSUME VInv, NEW c \in Callers, Done(c)
  PROVE  VInv'
<1> USE DEF VInv
<1>1. Raises("none") \in Verdicts /\ ~Accepted(Raises("none"))
  BY RaisesTyped
<1>2. /\ stage[c] = "done" /\ UNCHANGED <<time, cached>>
      /\ token' = [token EXCEPT ![c] = NoToken] /\ entry' = [entry EXCEPT ![c] = "any"]
      /\ stage' = [stage EXCEPT ![c] = "idle"]
      /\ verdict' = [verdict EXCEPT ![c] = Raises("none")]
      /\ rotated' = [rotated EXCEPT ![c] = FALSE] /\ failed' = [failed EXCEPT ![c] = FALSE]
  BY DEF Done
<1>3. TypeOK' /\ CacheTypes' /\ HeldInv'
  BY <1>1, <1>2 DEF TypeOK, OrNone, CacheTypes, HeldInv, WasPublished, time, cached, Entries
<1>4. CallOK(c) /\ phase[c] = "none"
  BY <1>2 DEF CallInv, CallOK
<1>5. /\ stage'[c] = "idle" /\ verdict'[c] = Raises("none") /\ phase'[c] = "none"
      /\ seen'[c] = seen[c] /\ heard'[c] = heard[c] /\ pubs' = pubs /\ held' = held
  BY <1>2, <1>4 DEF TypeOK, OrNone, time, cached
<1>6. CallOK(c)'
  BY <1>1, <1>4, <1>5, InvalidIsDeserved DEF CallOK
<1>7. CallInv'
  BY <1>2, <1>6, OneCaller DEF TypeOK, OrNone, time, cached
<1> QED
  BY <1>3, <1>7

LEMMA RotationKeeps ==
  ASSUME VInv, Rotation
  PROVE  VInv'
<1> USE DEF VInv
<1>1. PICK K \in (SUBSET Kids) \ {{}} : pubs' = Append(pubs, [keys |-> K, at |-> clock])
  BY DEF Rotation, Keys!Publish
<1>2. UNCHANGED <<clock, back, held, confirmed, phase, want, seen, heard, given>>
  BY DEF Rotation, Keys!Publish
<1>3. UNCHANGED <<token, entry, stage, verdict, failed>>
  BY DEF Rotation, request
<1>4. /\ pubs' \in Seq([keys : SUBSET Kids, at : Nat]) /\ Len(pubs') = Len(pubs) + 1
      /\ Len(pubs) \in Nat
      /\ \A v \in 1..Len(pubs) : pubs'[v] = pubs[v]
      /\ pubs'[Len(pubs) + 1].keys = K
  BY <1>1 DEF CacheTypes
<1>5. \A k : WasPublished(k) => WasPublished(k)'
  BY <1>4 DEF WasPublished
<1>6. rotated' \in [Callers -> BOOLEAN]
  BY Zenon DEF Rotation
<1>a. /\ pubs'[Len(pubs) + 1].at = clock
      /\ \A v \in 1..Len(pubs') : v # Len(pubs) + 1 => v \in 1..Len(pubs)
  BY <1>1, <1>4 DEF CacheTypes
<1>b. TypeOK' /\ CacheTypes'
  BY <1>2, <1>3, <1>4, <1>6 DEF TypeOK, OrNone, CacheTypes
<1>c. HeldInv'
  <2>1. ASSUME NEW w \in held.ver+1..Len(pubs')
        PROVE  confirmed <= pubs'[w].at + Lag + back
    <3>1. CASE w = Len(pubs) + 1
      BY <3>1, <1>a, TimeAssumption DEF CacheTypes, HeldInv
    <3>2. CASE w # Len(pubs) + 1
      <4>1. w \in held.ver+1..Len(pubs) /\ w \in 1..Len(pubs)
        BY <3>2, <1>4 DEF CacheTypes
      <4> QED
        BY <4>1, <1>4 DEF HeldInv
    <3> QED
      BY <3>1, <3>2
  <2>2. held.ver <= Len(pubs') /\ (held.keys # {} => held.ver > 0 /\ held.keys = pubs'[held.ver].keys)
    BY <1>4 DEF CacheTypes, HeldInv
  <2> QED
    BY <1>2, <2>1, <2>2 DEF HeldInv
<1>7. TypeOK' /\ CacheTypes' /\ HeldInv'
  BY <1>b, <1>c
<1>8. ASSUME NEW c \in Callers PROVE CallOK(c)'
  <2>1. CallOK(c)
    BY DEF CallInv
  <2>2. ~rotated'[c] => ~rotated[c] /\ (stage[c] = "lookup" => token[c].kid \in Published')
    BY DEF Rotation
  <2>3. Published' = K
    BY <1>4 DEF Published
  <2>4. /\ seen[c] \in Nat /\ seen[c] <= Len(pubs')
        /\ phase[c] = "consulted" /\ seen[c] # 0 /\ ~rotated'[c] =>
              \A w \in seen[c]..Len(pubs') : token[c].kid \in pubs'[w].keys
    <3>1. seen[c] \in Nat /\ seen[c] <= Len(pubs)
      BY <2>1 DEF CallOK, CacheTypes
    <3>2. ASSUME phase[c] = "consulted", seen[c] # 0, ~rotated'[c],
                 NEW w \in seen[c]..Len(pubs')
          PROVE  token[c].kid \in pubs'[w].keys
      <4>1. stage[c] = "lookup"
        BY <3>2, <2>1 DEF CallOK
      <4>2. CASE w = Len(pubs) + 1
        BY <4>1, <4>2, <1>4, <3>2, <2>2, <2>3
      <4>3. CASE w # Len(pubs) + 1
        <5>1. w \in seen[c]..Len(pubs) /\ w \in 1..Len(pubs)
          BY <4>3, <1>4, <3>1, <3>2
        <5>2. token[c].kid \in pubs[w].keys
          BY <5>1, <3>2, <2>1, <2>2 DEF CallOK
        <5> QED
          BY <5>1, <5>2, <1>4
      <4> QED
        BY <4>2, <4>3
    <3> QED
      BY <1>4, <3>1, <3>2
  <2>5. heard[c] # 0 => \A w \in seen[c]+1..Len(pubs') : heard[c] <= pubs'[w].at
    <3>1. ASSUME heard[c] # 0, NEW w \in seen[c]+1..Len(pubs')
          PROVE  heard[c] <= pubs'[w].at
      <4>1. CASE w = Len(pubs) + 1
        BY <3>1, <4>1, <1>a, <2>1 DEF CallOK
      <4>2. CASE w # Len(pubs) + 1
        <5>1. w \in seen[c]+1..Len(pubs) /\ w \in 1..Len(pubs)
          BY <4>2, <1>4, <2>4
        <5> QED
          BY <3>1, <5>1, <1>4, <2>1 DEF CallOK, CurrentAt
      <4> QED
        BY <4>1, <4>2
    <3> QED
      BY <3>1
  <2> QED
    BY <1>2, <1>3, <1>5, <2>1, <2>2, <2>4, <2>5 DEF CallOK, CurrentAt
<1> QED
  BY <1>7, <1>8 DEF CallInv

LEMMA TickKeeps ==
  ASSUME VInv, Tick
  PROVE  VInv'
<1> USE DEF VInv
<1>1. /\ clock' = clock + 1
      /\ UNCHANGED <<pubs, held, confirmed, phase, want, seen, heard, given>>
      /\ UNCHANGED <<token, entry, stage, verdict, rotated, failed>>
  BY DEF Tick, Keys!Pass, request
<1>2. back' = back /\ \A c \in Callers : heard[c] # 0 => clock < heard[c] + Lag
  BY DEF Tick, Keys!Pass
<1>3. TypeOK' /\ CacheTypes' /\ HeldInv'
  BY <1>1, <1>2, TimeAssumption DEF TypeOK, OrNone, CacheTypes, HeldInv
<1>4. ASSUME NEW c \in Callers PROVE CallOK(c)'
  <2>1. CallOK(c) /\ heard[c] \in Nat /\ clock \in Nat
    BY DEF CallInv, CacheTypes
  <2>2. heard[c] # 0 => heard[c] <= clock + 1 /\ clock + 1 <= heard[c] + Lag
    BY <1>2, <2>1, TimeAssumption DEF CallOK
  <2> QED
    BY <1>1, <2>1, <2>2 DEF CallOK, CurrentAt, WasPublished, Published
<1> QED
  BY <1>3, <1>4 DEF CallInv

(* A clock that is set back makes what is held seem to be confirmed later, *)
(* by as much as the bound allows for it.                                  *)
LEMMA SetBackKeeps ==
  ASSUME VInv, SetBack
  PROVE  VInv'
<1> USE DEF VInv
<1>1. /\ back' = back + 1 /\ confirmed' = IF confirmed = 0 THEN 0 ELSE confirmed + 1
      /\ UNCHANGED <<clock, pubs, held, phase, want, seen, heard, given>>
      /\ UNCHANGED <<token, entry, stage, verdict, rotated, failed>>
  BY DEF SetBack, Keys!SetBack, request
<1>2. TypeOK' /\ CacheTypes'
  BY <1>1 DEF TypeOK, OrNone, CacheTypes
<1>3. HeldInv'
  <2>1. ASSUME NEW w \in held.ver+1..Len(pubs)
        PROVE  confirmed' <= pubs[w].at + Lag + back'
    <3>1. /\ pubs[w].at \in Nat /\ confirmed <= pubs[w].at + Lag + back
          /\ confirmed \in Nat /\ back \in Nat
      BY PublicationTyped DEF CacheTypes, HeldInv
    <3> QED
      BY <1>1, <3>1, TimeAssumption
  <2> QED
    BY <1>1, <2>1 DEF CacheTypes, HeldInv
<1>4. CallInv'
  BY <1>1 DEF CallInv, CallOK, CurrentAt, WasPublished, Published
<1> QED
  BY <1>2, <1>3, <1>4

LEMMA RestartKeeps ==
  ASSUME VInv, Restart
  PROVE  VInv'
<1> USE DEF VInv
<1>1. Raises("none") \in Verdicts /\ ~Accepted(Raises("none"))
  BY RaisesTyped
<1>2. PICK v \in 0..Len(pubs) : \E K \in Keys!SetsOf(v) : held' = [keys |-> K, ver |-> v]
  BY DEF Restart, Keys!Forget
<1>3. PICK K \in Keys!SetsOf(v) : held' = [keys |-> K, ver |-> v]
  BY <1>2
<1>4. v \in 0..Len(pubs) /\ K \in {{}} \cup {pubs[w].keys : w \in 1..Len(pubs)}
  BY <1>2, <1>3 DEF HeldInv, CacheTypes, Keys!SetsOf
<1>5. /\ confirmed' = 0 /\ UNCHANGED <<clock, back, pubs>>
      /\ phase' = [c \in Callers |-> "none"] /\ want' = [c \in Callers |-> AllKeys]
      /\ seen' = [c \in Callers |-> 0] /\ heard' = [c \in Callers |-> 0]
      /\ given' = [c \in Callers |-> {}]
  BY DEF Restart, Keys!Forget
<1>6. K \in SUBSET Kids
  <2>1. \A w \in 1..Len(pubs) : pubs[w] \in [keys : SUBSET Kids, at : Nat]
    BY ElementOfSeq DEF CacheTypes
  <2> QED
    BY <1>4, <2>1
<1>7. TypeOK'
  BY <1>1 DEF Restart, TypeOK, OrNone, Entries
<1>8. CacheTypes' /\ HeldInv'
  <2>1. CacheTypes'
    BY <1>3, <1>4, <1>5, <1>6 DEF CacheTypes
  <2>2. v \in Nat /\ v <= Len(pubs) /\ (K # {} => v > 0 /\ K = pubs[v].keys)
    BY <1>2, <1>3 DEF Keys!SetsOf, CacheTypes
  <2>3. \A w \in v+1..Len(pubs) : 0 <= pubs[w].at + Lag + back
    <3>1. ASSUME NEW w \in v+1..Len(pubs) PROVE 0 <= pubs[w].at + Lag + back
      <4>1. pubs[w].at \in Nat
        BY <2>2, PublicationTyped
      <4> QED
        BY <4>1, TimeAssumption DEF CacheTypes
    <3> QED
      BY <3>1
  <2>4. HeldInv'
    BY <1>3, <1>5, <2>2, <2>3 DEF CacheTypes, HeldInv
  <2> QED
    BY <2>1, <2>4
<1>9. CallInv'
  BY <1>1, <1>5, InvalidIsDeserved DEF Restart, CallInv, CallOK, CacheTypes
<1> QED
  BY <1>7, <1>8, <1>9

LEMMA NextVInv == VInv /\ [Next]_vars => VInv'
<1> SUFFICES ASSUME VInv, [Next]_vars PROVE VInv'
  OBVIOUS
<1>1. CASE UNCHANGED vars
  BY <1>1 DEF vars, time, cached, request, VInv, TypeOK, OrNone, CacheTypes, HeldInv, CallInv, CallOK,
     CurrentAt, WasPublished, Published
<1> QED
  BY <1>1, ValidateKeeps, LookupKeeps, LookupFailsKeeps, DecodeKeeps, DoneKeeps,
     RotationKeeps, TickKeeps, SetBackKeeps, RestartKeeps DEF Next
-----------------------------------------------------------------------------
(* At every point of a validation, what it knows of keys and tokens.       *)
THEOREM VerdictInvariance == Spec => []VInv
  BY InitVInv, NextVInv, PTL DEF Spec

(* Type correctness: a verdict is a principal or one of the errors that    *)
(* _decode and the conversions of jwt_validator.py can raise.              *)
THEOREM VerdictsTyped == Spec => []TypeOK
<1>1. VInv => TypeOK
  BY DEF VInv
<1> QED
  BY <1>1, VerdictInvariance, PTL

(* Whoever is let in is let in as what the claims convert to.              *)
LEMMA AcceptedConverts ==
  ASSUME VInv, NEW c \in Callers, Accepted(verdict[c])
  PROVE  /\ token[c] \in Tokens /\ entry[c] \in Entries
         /\ verdict[c] = Convert(entry[c], token[c].claims)
<1>1. Deserved(token[c], entry[c], verdict[c]) /\ entry[c] \in Entries
  BY DEF VInv, CallInv, CallOK, TypeOK
<1>2. verdict[c].result \notin Errors \cup {"none", "InvalidToken"}
  BY DEF Accepted, Errors
<1> QED
  BY <1>1, <1>2 DEF Deserved

(* A principal is of its token's kind, identified by a UUID or a client's  *)
(* name, with the account the token gives it.                              *)
THEOREM PrincipalsAreCoherent == Spec => []PrincipalsCoherent
<1>1. ASSUME VInv, NEW c \in Callers, Accepted(verdict[c])
      PROVE  LET v == verdict[c]  claims == token[c].claims IN
             /\ v.result = "client" <=> IsClient(claims)
             /\ v.result = "user" => v.id = claims.sub /\ v.id \in UUIDs
             /\ v.result = "client" => /\ v.id = claims.sub
                                       /\ v.account = claims.account_id
                                       /\ v.account \in UUIDs
  <2>1. /\ token[c] \in Tokens /\ verdict[c] = Convert(entry[c], token[c].claims)
        /\ entry[c] \in Entries
    BY <1>1, AcceptedConverts
  <2>2. token[c].claims \in Claims
    BY <2>1, TokensTyped
  <2>3. ~Accepted(Raises("InvalidToken"))
    BY RaisesTyped DEF Errors
  <2> QED
    BY <1>1, <2>1, <2>2, <2>3, ConvertCases, UserTyped, ClientTyped DEF Accepted
<1>2. VInv => PrincipalsCoherent
  BY <1>1, Zenon DEF PrincipalsCoherent
<1> QED
  BY <1>2, VerdictInvariance, PTL

(* The methods never disagree about whom a token stands for.               *)
THEOREM MethodsAgree == Spec => []EntriesAgree
<1>1. ASSUME VInv, NEW c \in Callers, NEW d \in Callers,
             Accepted(verdict[c]), Accepted(verdict[d]), token[c] = token[d]
      PROVE  verdict[c] = verdict[d] /\ {entry[c], entry[d]} # {"user", "client"}
  <2>1. /\ token[c] \in Tokens /\ entry[c] \in Entries /\ entry[d] \in Entries
        /\ verdict[c] = Convert(entry[c], token[c].claims)
        /\ verdict[d] = Convert(entry[d], token[c].claims)
    BY <1>1, AcceptedConverts
  <2>2. token[c].claims \in Claims
    BY <2>1, TokensTyped
  <2>3. ~Accepted(Raises("InvalidToken"))
    BY RaisesTyped DEF Errors
  <2>4. \/ /\ verdict[c] = ClientPrincipal(token[c].claims) /\ verdict[d] = verdict[c]
           /\ entry[c] # "user" /\ entry[d] # "user"
        \/ /\ verdict[c] = UserPrincipal(token[c].claims) /\ verdict[d] = verdict[c]
           /\ entry[c] # "client" /\ entry[d] # "client"
    BY <1>1, <2>1, <2>2, <2>3, ConvertCases
  <2> QED
    BY <2>4
<1>2. VInv => EntriesAgree
  BY <1>1, Zenon DEF EntriesAgree
<1> QED
  BY <1>2, VerdictInvariance, PTL

(* Only a token that is genuine when it is decoded is accepted.            *)
THEOREM AcceptedAreGenuine == Spec => OnlyGenuineAccepted
<1>1. ASSUME VInv, Next, NEW c \in Callers, Concluding(c), Accepted(verdict'[c])
      PROVE  /\ Genuine(token[c])
             /\ UseJWKS => \E v \in 1..Len(pubs) : token[c].kid \in pubs[v].keys
  <2>1. ~Accepted(Raises("InvalidToken")) /\ ~Accepted(Raises("none"))
    BY RaisesTyped DEF Errors
  <2>2. Decode(c)
    BY <1>1, <2>1 DEF Next, Validate, Lookup, LookupFails, Decode, Done, Rotation, Tick,
       SetBack, Restart, Concludes, Concluding, VInv, TypeOK
  <2>3. token[c] \in Tokens /\ entry[c] \in Entries /\ CallOK(c)
    BY <2>2, <1>1, BroughtToken DEF Decode, VInv, CallInv
  <2>4. CASE stage[c] = "lookup" /\ phase[c] = "served"
    <3>1. PICK key \in given[c] : Concludes(c, Decoded(token[c], entry[c], key))
      BY <2>2, <2>4 DEF Decode
    <3>2. UseJWKS /\ key = token[c].kid /\ key \in Kids /\ WasPublished(key)
      BY <2>3, <2>4, <3>1 DEF CallOK
    <3>3. verdict'[c] = Decoded(token[c], entry[c], key)
      BY <1>1, <3>1 DEF Concludes, VInv, TypeOK
    <3>4. key \notin NotRSA /\ DecodeError(token[c], key) = "none" /\ HasType(token[c])
      BY <1>1, <2>3, <3>3, DecodedTyped
    <3>5. Genuine(token[c])
      BY <2>3, <3>2, <3>4, DecodedIsGenuine
    <3> QED
      BY <3>2, <3>5 DEF WasPublished
  <2>5. CASE stage[c] = "decode"
    <3>1. Concludes(c, Decoded(token[c], entry[c], Secret)) /\ ~UseJWKS
      BY <2>2, <2>3, <2>5 DEF Decode, CallOK
    <3>2. verdict'[c] = Decoded(token[c], entry[c], Secret)
      BY <1>1, <3>1 DEF Concludes, VInv, TypeOK
    <3>3. DecodeError(token[c], Secret) = "none" /\ HasType(token[c])
      BY <1>1, <2>3, <3>2, DecodedTyped
    <3> QED
      BY <2>3, <3>1, <3>3, DecodedIsGenuine
  <2> QED
    BY <2>2, <2>4, <2>5 DEF Decode
<1> DEFINE Good == \A c \in Callers : Concluding(c) /\ Accepted(verdict'[c]) =>
              /\ Genuine(token[c])
              /\ UseJWKS => \E v \in 1..Len(pubs) : token[c].kid \in pubs[v].keys
<1>2. VInv /\ [Next]_vars => [Good]_vars
  BY <1>1
<1> QED
  BY <1>2, VerdictInvariance, PTL DEF Spec, OnlyGenuineAccepted

(* A genuine token decodes to what its claims say.                         *)
LEMMA GenuineDecodes ==
  ASSUME NEW tok \in Tokens, NEW e, NEW key, Genuine(tok), key = tok.key,
         UseJWKS \/ key \notin NotRSA,
         tok.claims.sub \in Words
  PROVE  Decoded(tok, e, key) = Convert(e, tok.claims)
<1>1. key \notin NotRSA /\ HasType(tok)
  BY DEF Genuine
<1>2. HasRequired(tok) /\ SubAccepted(tok)
  BY DEF Genuine, HasRequired, SubAccepted, Get, Words, UUIDs
<1>3. ASSUME NEW start \in {tok.iat, tok.nbf} PROVE StartError(start) = "none"
  BY <1>3 DEF Genuine, StartError, IntError, Check
<1>4. ExpiryError(tok.exp) = "none"
  BY DEF Genuine, ExpiryError, Check
<1>5. DecodeError(tok, key) = "none"
  BY <1>2, <1>3, <1>4, DecodeErrors DEF Genuine
<1> QED
  BY <1>1, <1>5 DEF Decoded

(* No 401 in the wake of a rotation.                                       *)
THEOREM GenuineAreAccepted == Spec => NoFalseReject
<1> DEFINE Judged(c) ==
             /\ Concluding(c) /\ token'[c] # NoToken
             /\ LET tok == token'[c] IN
                /\ Genuine(tok) /\ ~rotated[c] /\ ~failed[c]
                /\ tok.claims.sub \in Words
             => verdict'[c] = Convert(entry'[c], token'[c].claims)
<1>1. ASSUME VInv, Next, NEW c \in Callers, Concluding(c), Genuine(token'[c]),
             ~rotated[c], ~failed[c], token'[c].claims.sub \in Words
      PROVE  verdict'[c] = Convert(entry'[c], token'[c].claims)
  <2>1. ~(\E tok \in Tokens, e \in Entries : Validate(c, tok, e))
    <3>1. SUFFICES ASSUME NEW tok \in Tokens, NEW e \in Entries, Validate(c, tok, e)
                   PROVE  FALSE
      OBVIOUS
    <3>2. token'[c] = tok
      BY <3>1, <1>1 DEF Validate, VInv, TypeOK
    <3>3. UseJWKS /\ tok.kid = NoKey
      BY <3>1, <1>1 DEF Validate, Concluding, VInv, TypeOK
    <3> QED
      BY <3>2, <3>3, <1>1, KeysAssumption DEF Genuine
  <2>2. ~LookupFails(c)
    BY <1>1 DEF LookupFails, VInv, CallInv, CallOK
  <2>3. Decode(c)
    BY <1>1, <2>1, <2>2 DEF Next, Validate, Lookup, LookupFails, Decode, Done, Rotation,
       Tick, SetBack, Restart, Concludes, Concluding, VInv, TypeOK
  <2>4. token'[c] = token[c] /\ entry'[c] = entry[c] /\ CallOK(c) /\ token[c] \in Tokens
    BY <2>3, <1>1, BroughtToken DEF Decode, request, VInv, CallInv
  <2>5. CASE stage[c] = "lookup" /\ phase[c] = "served"
    <3>1. PICK key \in given[c] : Concludes(c, Decoded(token[c], entry[c], key))
      BY <2>3, <2>5 DEF Decode
    <3>2. UseJWKS /\ key = token[c].key
      BY <1>1, <2>4, <2>5, <3>1 DEF CallOK, Genuine
    <3>3. verdict'[c] = Decoded(token[c], entry[c], key)
      BY <1>1, <3>1 DEF Concludes, VInv, TypeOK
    <3> QED
      BY <1>1, <2>4, <3>2, <3>3, GenuineDecodes
  <2>6. CASE stage[c] = "decode"
    <3>1. Concludes(c, Decoded(token[c], entry[c], Secret)) /\ ~UseJWKS
      BY <2>3, <2>4, <2>6 DEF Decode, CallOK
    <3>2. verdict'[c] = Decoded(token[c], entry[c], Secret)
      BY <1>1, <3>1 DEF Concludes, VInv, TypeOK
    <3>3. token[c].key = Secret
      BY <1>1, <2>4, <3>1 DEF Genuine
    <3> QED
      BY <1>1, <2>4, <3>2, <3>3, GenuineDecodes, KeysAssumption
  <2> QED
    BY <2>3, <2>5, <2>6 DEF Decode
<1>2. VInv /\ [Next]_vars => [\A c \in Callers : Judged(c)]_vars
  BY <1>1
<1> QED
  BY <1>2, VerdictInvariance, PTL DEF Spec, NoFalseReject

(* A key that is served from the cache unasked is in force, or was until    *)
(* TTL, Lag and set-backs of the clock ago.                                *)
THEOREM WithdrawnKeysExpire == Spec => WithdrawnKeyBound
<1> DEFINE InForce(c) ==
             phase[c] = "asked" /\ phase'[c] = "served" =>
                \E v \in 1..Len(pubs) :
                   /\ token[c].kid \in pubs[v].keys
                   /\ v # Len(pubs) => clock <= pubs[v + 1].at + TTL + Lag + back
<1>1. ASSUME VInv, Next, NEW c \in Callers, phase[c] = "asked", phase'[c] = "served"
      PROVE  Keys!Serve(c)
  <2> USE <1>1 DEF VInv, CacheTypes
  <2>1. ASSUME NEW d \in Callers, Lookup(d) PROVE Keys!Serve(c)
    BY <2>1 DEF Lookup, Keys!Consult, Keys!Learn, Keys!Serve, Keys!Refuse, Keys!Becomes
  <2>2. ASSUME NEW d \in Callers, NEW tok \in Tokens, NEW e \in Entries, Validate(d, tok, e)
        PROVE  FALSE
    BY <2>2 DEF Validate, Keys!Ask, Keys!Becomes, cached
  <2>3. ASSUME NEW d \in Callers, LookupFails(d) \/ Decode(d) \/ Done(d)
        PROVE  FALSE
    BY <2>3 DEF LookupFails, Decode, Done, Keys!Leave, Keys!Becomes, cached
  <2>4. ~(Rotation \/ Tick \/ SetBack \/ Restart)
    BY DEF Rotation, Tick, SetBack, Restart, Keys!Publish, Keys!Pass, Keys!SetBack, Keys!Forget
  <2> QED
    BY <2>1, <2>2, <2>3, <2>4 DEF Next
<1>2. ASSUME VInv, NEW c \in Callers, phase[c] = "asked", Keys!Serve(c)
      PROVE  \E v \in 1..Len(pubs) :
                /\ token[c].kid \in pubs[v].keys
                /\ v # Len(pubs) => clock <= pubs[v + 1].at + TTL + Lag + back
  <2> USE <1>2 DEF VInv
  <2>1. CallOK(c) /\ want[c] = token[c].kid /\ want[c] \in Kids
    BY DEF CallInv, CallOK
  <2>2. want[c] \in held.keys /\ clock <= confirmed + TTL
    BY <2>1, KeysAssumption DEF Keys!Serve
  <2>3. held.ver \in 1..Len(pubs) /\ token[c].kid \in pubs[held.ver].keys
    BY <2>1, <2>2 DEF HeldInv, CacheTypes
  <2>4. ASSUME held.ver # Len(pubs)
        PROVE  clock <= pubs[held.ver + 1].at + TTL + Lag + back
    <3>1. held.ver + 1 \in held.ver+1..Len(pubs) /\ held.ver + 1 \in 1..Len(pubs)
      BY <2>3, <2>4 DEF CacheTypes
    <3>2. pubs[held.ver + 1].at \in Nat /\ confirmed <= pubs[held.ver + 1].at + Lag + back
      BY <3>1, PublicationTyped DEF HeldInv
    <3>3. \A a \in Nat : confirmed <= a + Lag + back => clock <= a + TTL + Lag + back
      BY <2>2, TimeAssumption DEF CacheTypes
    <3> QED
      BY <3>2, <3>3
  <2> QED
    BY <2>3, <2>4
<1>3. VInv /\ [Next]_vars => [\A c \in Callers : InForce(c)]_vars
  BY <1>1, <1>2
<1> QED
  BY <1>3, VerdictInvariance, PTL DEF Spec, WithdrawnKeyBound

(* What else than an InvalidToken a caller may have to handle comes from a *)
(* client's account or a user's sub that is no text, an infinite tier, an  *)
(* iat, nbf or exp that int() raises at, or an algorithm of another family *)
(* than the key's only, and from nothing else in a token of any make.      *)
THEOREM OddTokensAlone == Spec => []OnlyOddTokensEscape
<1>1. ASSUME VInv, NEW c \in Callers, verdict[c].result \in Escaping
      PROVE  LET claims == token[c].claims IN
             \/ IsClient(claims) /\ claims.account_id \notin Texts
             \/ ~IsClient(claims) /\ claims.sub \notin Texts \cup {"null"} /\ ~StrictSub
             \/ claims.tier = "infinite"
             \/ OddTimes(token[c]) \/ OddAlgorithm(token[c])
  <2>1. Deserved(token[c], entry[c], verdict[c]) /\ entry[c] \in Entries
    BY <1>1 DEF VInv, CallInv, CallOK, TypeOK
  <2>2. token[c] \in Tokens
    BY <1>1, <2>1 DEF Deserved, Escaping, Errors
  <2>3. token[c].claims \in Claims
    BY <2>2, TokensTyped
  <2>4. CASE verdict[c] = Convert(entry[c], token[c].claims) /\ HasRequired(token[c])
           /\ SubAccepted(token[c])
    <3>1. ~(verdict[c] = Raises("InvalidToken"))
      BY <1>1, RaisesTyped DEF Escaping, Errors
    <3>2. token[c].claims.sub # "null" /\ (StrictSub => token[c].claims.sub \in Texts)
      BY <2>4 DEF HasRequired, SubAccepted, Get, Texts
    <3> QED
      BY <1>1, <2>1, <2>3, <2>4, <3>1, <3>2, ConvertCases, UserTyped, ClientTyped
  <2>5. CASE OddTimes(token[c]) \/ OddAlgorithm(token[c])
    BY <2>5
  <2> QED
    BY <1>1, <2>1, <2>4, <2>5 DEF Deserved, Escaping, Errors
<1>2. VInv => OnlyOddTokensEscape
  BY <1>1, Zenon DEF OnlyOddTokensEscape, Escaping
<1> QED
  BY <1>2, VerdictInvariance, PTL
=============================================================================
