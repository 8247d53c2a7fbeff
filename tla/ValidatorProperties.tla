------------------------ MODULE ValidatorProperties ------------------------
(***************************************************************************)
(* What makes HubJWTValidator correct: which verdicts are deserved, and    *)
(* what its principals carry.                                              *)
(***************************************************************************)
EXTENDS HubJWTValidator

Accepted(v) == v.result \in {"user", "client"}

(* The step at which a caller gets its verdict.                            *)
Concluding(c) == stage[c] # "done" /\ stage'[c] = "done"

(* What a token's issuer and its age must be; the key is the kid's own.    *)
Genuine(tok) ==
    /\ UseJWKS => tok.kid \in Kids \ NotRSA
    /\ tok.alg = IF UseJWKS THEN "RSA" ELSE "HMAC"
    /\ tok.key = IF UseJWKS THEN tok.kid ELSE Secret
    /\ tok.addressed /\ HasType(tok)
    /\ \A start \in {tok.iat, tok.nbf} :
          \/ start.is = "absent"
          \/ start.is = "time" /\ start.at + back <= clock + Leeway
    /\ tok.exp.is = "time" /\ clock < tok.exp.at + Leeway + back

(* Whatever happens to keys and clock between the lookup and the decoding, *)
(* a token is accepted only when at that moment it is not expired (by more *)
(* than the clock was set back), and was signed with the very key its      *)
(* header names, which the realm did publish.                              *)
OnlyGenuineAccepted ==
    [][\A c \in Callers :
         Concluding(c) /\ Accepted(verdict'[c]) =>
            /\ Genuine(token[c])
            /\ UseJWKS => \E v \in 1..Len(pubs) : token[c].kid \in pubs[v].keys]_vars

(* A genuine token whose kid stays published throughout the call is judged *)
(* by its claims alone, however old or empty the cache was, unless the     *)
(* call's own exchange with the realm failed: no 401 in the wake of a      *)
(* rotation.                                                               *)
NoFalseReject ==
    [][\A c \in Callers :
         /\ Concluding(c) /\ token'[c] # NoToken
         /\ LET tok == token'[c] IN
            /\ Genuine(tok) /\ ~rotated[c] /\ ~failed[c]
            /\ tok.claims.sub \in Words
         => verdict'[c] = Convert(entry'[c], token'[c].claims)]_vars

(* A key that a token is verified with unasked, from the cache, is in force*)
(* still, or was until no longer ago than the TTL, the Lag of the answer   *)
(* that confirmed it, and what the clock was set back by: for so long may a*)
(* token of a key that the realm has withdrawn be accepted.                *)
WithdrawnKeyBound ==
    [][\A c \in Callers :
         phase[c] = "asked" /\ phase'[c] = "served" =>
            \E v \in 1..Len(pubs) :
                /\ token[c].kid \in pubs[v].keys
                /\ v # Len(pubs) => clock <= pubs[v + 1].at + TTL + Lag + back]_vars

(* A principal is of the kind its token says, a user is identified by a    *)
(* UUID, and a client has a name and the account of its account_id claim.  *)
PrincipalsCoherent ==
    \A c \in Callers : Accepted(verdict[c]) =>
        LET v == verdict[c]  claims == token[c].claims IN
        /\ v.result = "client" <=> IsClient(claims)
        /\ v.result = "user" => v.id = claims.sub /\ v.id \in UUIDs
        /\ v.result = "client" => /\ v.id = claims.sub
                                  /\ v.account = claims.account_id
                                  /\ v.account \in UUIDs

(* Two validations that accept one token say the same of it, and the       *)
(* methods for one kind never both do: which method a spoke calls decides  *)
(* whether a token is let in, not as whom.                                 *)
EntriesAgree ==
    \A c, d \in Callers :
        Accepted(verdict[c]) /\ Accepted(verdict[d]) /\ token[c] = token[d] =>
            /\ verdict[c] = verdict[d]
            /\ {entry[c], entry[d]} # {"user", "client"}

(* What int() raises past the library's handler at a time claim.           *)
OddTimes(tok) == \/ {tok.iat.is, tok.nbf.is} \cap {"null", "infinite", "array"} # {}
                 \/ tok.exp.is \in {"infinite", "array"}

(* An algorithm that the library has, or stumbles at, and that is not of   *)
(* the RSA key's family.                                                   *)
OddAlgorithm(tok) == UseJWKS /\ tok.alg \notin {"RSA", "unknown"}

(* What the caller has to handle beside InvalidToken, for all the code that*)
(* a token runs through: only a client's account or a user's sub that is no*)
(* text, a tier beyond all numbers, an iat, nbf or exp that int() does not *)
(* take, and an algorithm of another family than the keys' make another    *)
(* exception of it.  A missing claim, or a wrong text, never does.         *)
Texts == Words \cup {"empty", "absent"}
OnlyOddTokensEscape ==
    \A c \in Callers : verdict[c].result \in Errors \ {"InvalidToken"} =>
        LET claims == token[c].claims IN
        \/ IsClient(claims) /\ claims.account_id \notin Texts
        \/ ~IsClient(claims) /\ claims.sub \notin Texts \cup {"null"} /\ ~StrictSub
        \/ claims.tier = "infinite"
        \/ OddTimes(token[c]) \/ OddAlgorithm(token[c])
-----------------------------------------------------------------------------
(* README.md:37-39 and 149, exceptions.py:3 and 14: a caller that handles  *)
(* InvalidToken has handled every token that is not valid.                 *)
OnlyInvalidToken ==
    \A c \in Callers : verdict[c].result \in {"none", "user", "client", "InvalidToken"}
-----------------------------------------------------------------------------
(* The inductive invariant behind the properties.                          *)
CacheTypes ==
    /\ clock \in Nat /\ clock > TTL /\ back \in Nat /\ confirmed \in Nat
    /\ pubs \in Seq([keys : SUBSET Kids, at : Nat]) /\ Len(pubs) > 0
    /\ held \in [keys : SUBSET Kids, ver : Nat]
    /\ phase \in [Callers -> {"none", "asked", "consulted", "learnt", "served", "refused"}]
    /\ want \in [Callers -> Kids \cup {AllKeys}]
    /\ seen \in [Callers -> Nat] /\ heard \in [Callers -> Nat]
    /\ given \in [Callers -> SUBSET Kids]

WasPublished(k) == \E v \in 1..Len(pubs) : k \in pubs[v].keys

(* What was heard of publication v at time t was not superseded before t.  *)
CurrentAt(v, t) == \A w \in v+1..Len(pubs) : t <= pubs[w].at

HeldInv ==
    /\ held.ver <= Len(pubs)
    /\ held.keys # {} => held.ver > 0 /\ held.keys = pubs[held.ver].keys
    /\ confirmed <= clock + back
    /\ \A w \in held.ver+1..Len(pubs) : confirmed <= pubs[w].at + Lag + back

(* A verdict other than InvalidToken is what the claims convert to, or what*)
(* the library raises at an odd algorithm or an odd time.                  *)
Deserved(tok, e, v) ==
    v.result \notin {"none", "InvalidToken"} =>
        /\ tok \in Tokens
        /\ \/ v = Convert(e, tok.claims) /\ HasRequired(tok) /\ SubAccepted(tok)
           \/ v.result \in Errors /\ (OddTimes(tok) \/ OddAlgorithm(tok))

(* What a validation knows of the keys when it is at each of its points.   *)
CallOK(c) ==
    LET kid == token[c].kid IN
    /\ stage[c] = "lookup" <=> phase[c] # "none"
    /\ stage[c] = "lookup" => UseJWKS /\ kid \in Kids /\ want[c] = kid
    /\ stage[c] = "decode" => ~UseJWKS
    /\ stage[c] \in {"lookup", "decode"} => token[c] \in Tokens
    /\ seen[c] <= Len(pubs)
    /\ heard[c] # 0 <=> phase[c] = "consulted" /\ seen[c] # 0
    /\ heard[c] # 0 => /\ heard[c] <= clock /\ clock <= heard[c] + Lag
                       /\ CurrentAt(seen[c], heard[c])
    /\ phase[c] = "served" => given[c] = {kid} /\ WasPublished(kid)
    /\ phase[c] # "none" /\ ~rotated[c] => kid \in Published
    /\ phase[c] = "consulted" /\ seen[c] # 0 /\ ~rotated[c] =>
          \A w \in seen[c]..Len(pubs) : kid \in pubs[w].keys
    /\ ~rotated[c] /\ ~failed[c] =>
          /\ phase[c] = "consulted" => seen[c] # 0
          /\ phase[c] = "learnt" => kid \in held.keys
          /\ phase[c] # "refused"
    /\ stage[c] # "done" => verdict[c] = Raises("none")
    /\ Deserved(token[c], entry[c], verdict[c])

CallInv == \A c \in Callers : CallOK(c)

VInv == TypeOK /\ CacheTypes /\ HeldInv /\ CallInv
=============================================================================
