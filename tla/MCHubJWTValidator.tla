------------------------- MODULE MCHubJWTValidator -------------------------
(* Small instances of HubJWTValidator for TLC.                             *)
EXTENDS ValidatorProperties, TLC

CONSTANTS k1, k2

PlainUser ==
    [sub |-> "uuidA", principal_type |-> "absent",
     account_id |-> "uuidA", active_account_id |-> "absent",
     contract_id |-> "absent", active_contract_id |-> "absent",
     scopes |-> "array", tier |-> "number", policy |-> "object"]
PlainClient == [PlainUser EXCEPT !.sub = "text", !.principal_type = "client",
                                 !.active_account_id = "uuidB"]

At(t)    == [is |-> "time", at |-> t]
Is(kind) == [is |-> kind, at |-> 0]

(* Signed with a key of the realm, or with another one than their header   *)
(* says, with expiry within the run.                                       *)
Signed(kid, key, iat, exp, claims) ==
    [kid |-> kid, alg |-> "RSA", key |-> key, addressed |-> TRUE, iat |-> At(iat),
     nbf |-> Is("absent"), exp |-> At(exp), type |-> "absent", claims |-> claims]

RealmTokens ==
    { Signed(k1, k1, 2, 2, PlainUser), Signed(k2, k1, 0, 3, PlainClient),
      Signed(NoKey, k1, 0, 3, PlainUser) }

(* Tokens of the Hub with the shared secret: what a claim may be, two at a *)
(* time, and everything around the claims.                                 *)
Variants(base) ==
    { [base EXCEPT !.sub = s, !.account_id = a, !.active_account_id = b] :
         s \in Values, a \in Values, b \in {"absent", "empty", "uuidB"} }
    \cup { [base EXCEPT !.contract_id = a, !.active_contract_id = b] :
              a \in Values, b \in {"absent", "empty", "uuidB", "text"} }
    \cup UNION { { [base EXCEPT !.scopes = v], [base EXCEPT !.tier = v],
                   [base EXCEPT !.policy = v] } : v \in Values }

OfTheHub(claims) ==
    [kid |-> NoKey, alg |-> "HMAC", key |-> Secret, addressed |-> TRUE, iat |-> At(0),
     nbf |-> Is("absent"), exp |-> At(2), type |-> "access", claims |-> claims]

Times == {At(3)} \cup { Is(kind) : kind \in {"absent", "null", "text", "infinite", "array"} }

HubTokens ==
    { OfTheHub(c) : c \in Variants(PlainUser) \cup Variants(PlainClient) }
    \cup { [OfTheHub(c) EXCEPT !.key = k, !.addressed = a, !.exp = At(e), !.type = t] :
             c \in {PlainUser, PlainClient}, k \in {Secret, NoKey},
             a \in BOOLEAN, e \in {1, 2}, t \in {"absent", "access"} }
    \cup { [OfTheHub(PlainUser) EXCEPT !.iat = i, !.nbf = n, !.exp = e] :
             i \in Times, n \in Times, e \in Times }
    \cup { [OfTheHub(PlainClient) EXCEPT !.alg = a] : a \in Algorithms }

(* A client's token with a null for its account.                           *)
NullAccount == {OfTheHub([PlainClient EXCEPT !.account_id = "null"])}

Symmetric == Permutations(Callers)
=============================================================================
