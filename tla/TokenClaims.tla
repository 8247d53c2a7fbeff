---------------------------- MODULE TokenClaims ----------------------------
(***************************************************************************)
(* From the claims of a decoded token to a SpokePrincipal: the second half *)
(* of inventia_spoke_sdk/jwt_validator.py and the constructor of           *)
(* principal.py, as functions of the claims.                               *)
(*                                                                         *)
(* A JSON value is its class: two different UUIDs in text (with dashes, so *)
(* that it is no number), text that is a whole number, other text, the     *)
(* empty string, null, a number, the number of 32 digits that are also     *)
(* those of the first UUID, zero or false, a number Python reads as        *)
(* infinite (1e999), an array or an object that is not empty, or the       *)
(* claim's absence.                                                        *)
(***************************************************************************)
EXTENDS Naturals, Sequences

UUIDs  == {"uuidA", "uuidB"}
Falsy  == {"null", "empty", "zero"}
Words  == UUIDs \cup {"numeral", "text"}
Values == Words \cup Falsy \cup
            {"absent", "number", "longnumber", "infinite", "array", "object"}

Claims == [sub : Values, principal_type : {"absent", "user", "client"},
           account_id : Values, active_account_id : Values,
           contract_id : Values, active_contract_id : Values,
           scopes : Values, tier : Values, policy : Values]

(* What decoding and conversions may raise; only the first is of the SDK.  *)
Errors == {"InvalidToken", "InvalidKeyError", "TypeError", "AttributeError", "OverflowError"}

(* payload.get(claim), and payload.get(a) or payload.get(b).               *)
Get(v) == IF v = "absent" THEN "null" ELSE v
Or(a, b) == IF Get(a) \in Falsy THEN Get(b) ELSE Get(a)

(* A fault of StrictUUID: the text is taken as it comes.                   *)
UnparsedUUID(v) == IF v = "absent" THEN "InvalidToken" ELSE v

(* UUID(payload[claim]) under `except (KeyError, ValueError)': only text   *)
(* gets as far as a ValueError.                                            *)
StrictUUID(v) ==
    CASE v \in UUIDs -> v
      [] v \in {"absent", "numeral", "text", "empty"} -> "InvalidToken"
      [] v = "null" -> "TypeError"
      [] OTHER -> "AttributeError"

(* A fault of MaybeUUID: it, too, takes the value as it is and catches     *)
(* ValueErrors only.                                                       *)
MaybeUUIDNarrow(v) ==
    CASE v \in UUIDs -> v
      [] v \in {"null", "empty"} -> "none"
      [] v \in {"numeral", "text"} -> "InvalidToken"
      [] OTHER -> "AttributeError"

(* UUID(str(value)): any value that is written like a UUID will do.        *)
MaybeUUID(v) ==
    CASE v \in UUIDs -> v
      [] v = "longnumber" -> "uuidA"
      [] v \in {"null", "empty"} -> "none"
      [] OTHER -> "InvalidToken"

MaybeInt(v) ==
    CASE v = "null" -> "none"
      [] v \in {"zero", "number", "longnumber", "numeral"} -> v
      [] v = "infinite" -> "OverflowError"
      [] OTHER -> "InvalidToken"

ParseScopes(v) == IF v \in {"null", "array"} THEN v ELSE "InvalidToken"

MaybeDict(v) == IF v \in {"null", "object"} THEN v ELSE "InvalidToken"

(* Checks and conversions come one after the other; the first error is     *)
(* raised.                                                                 *)
FirstError(results) ==
    LET bad == {i \in DOMAIN results : results[i] \in Errors}
    IN IF bad = {} THEN "none"
       ELSE results[CHOOSE i \in bad : \A j \in bad : i <= j]

Raises(error) ==
    [result |-> error, id |-> "none", account |-> "none", contract |-> "none"]

(* A principal of the given kind, or the error its claims raise on the     *)
(* way.  `tier' stands for the integer claims, `policy' for the objects and*)
(* `scopes' for the lists.                                                 *)
Principal(kind, id, account, c) ==
    LET contract == MaybeUUID(Or(c.active_contract_id, c.contract_id))
        error == FirstError(<<contract, account, ParseScopes(Get(c.scopes)),
                              MaybeInt(Get(c.tier)), MaybeDict(Get(c.policy))>>)
    IN IF error # "none" THEN Raises(error)
       ELSE [result |-> kind, id |-> id, account |-> account, contract |-> contract]

UserPrincipal(c) ==
    LET id == StrictUUID(c.sub)
    IN IF id \in Errors THEN Raises(id)
       ELSE Principal("user", id, MaybeUUID(Or(c.active_account_id, c.account_id)), c)

(* A fault of ClientPrincipal: it prefers an active account, like a user's.*)
ClientPrincipalActive(c) ==
    LET account == StrictUUID(Or(c.active_account_id, c.account_id)) IN
    IF Get(c.sub) \notin Words THEN Raises("InvalidToken")
    ELSE IF account \in Errors THEN Raises(account)
    ELSE Principal("client", c.sub, account, c)

(* A client has no active account: its account is the claim's, and a must. *)
ClientPrincipal(c) ==
    LET account == StrictUUID(c.account_id) IN
    IF Get(c.sub) \notin Words THEN Raises("InvalidToken")
    ELSE IF account \in Errors THEN Raises(account)
    ELSE Principal("client", c.sub, account, c)

IsClient(c) == c.principal_type = "client"

(* The three public methods (validate is validate_user_token).             *)
Entries == {"user", "client", "any"}

(* A fault of Convert: a user token is validated as a client where the     *)
(* method does not say.                                                    *)
ConvertByEntry(entry, c) ==
    IF entry = "user" /\ ~IsClient(c) THEN UserPrincipal(c) ELSE ClientPrincipal(c)

Convert(entry, c) ==
    CASE IsClient(c) /\ entry # "user"    -> ClientPrincipal(c)
      [] ~IsClient(c) /\ entry # "client" -> UserPrincipal(c)
      [] OTHER -> Raises("InvalidToken")
=============================================================================
