------------------------- MODULE CertificateReader -------------------------
(***************************************************************************)
(* Certificates and their keys, as MasterDataRepository reads them from    *)
(* the database it shares with master-data (masterdata/repository.py,      *)
(* masterdata/crypto.py), while master-data issues, switches and re-keys.  *)
(*                                                                         *)
(* Every SELECT sees what is committed when it runs (READ COMMITTED, which *)
(* the SDK leaves as it is).  An entity a session still holds in its       *)
(* identity map keeps the attributes it was loaded with, whatever the row  *)
(* has become; a column that is selected alone is always read anew.        *)
(***************************************************************************)
EXTENDS Naturals, FiniteSets

CONSTANTS
    Sessions,
    Tenants,
    Companies, OwnerOf,   \* the tenant a company belongs to
    Certs, NoRow,         \* certificates.id
    MaxIssued,            \* bound on issued_at
    Keys, NoKey,          \* Fernet keys; NoKey: no row, or an empty one
    Legacy,               \* tenants whose keys master-data kept elsewhere
    KeepOnCommit,         \* expire_on_commit=False
    Nothing, KeyMissing, Undecipherable   \* None and the two errors

ASSUME CompaniesAssumption == OwnerOf \in [Companies -> Tenants]
ASSUME IssuedAssumption == MaxIssued \in Nat \ {0}
ASSUME KeysAssumption == NoKey \notin Keys /\ Keys # {} /\ Legacy \subseteq Tenants
ASSUME OptionsAssumption == KeepOnCommit \in BOOLEAN
ASSUME AnswersAssumption ==
    /\ {Nothing, KeyMissing, Undecipherable} \cap Certs = {}
    /\ Nothing # KeyMissing /\ KeyMissing # Undecipherable /\ Undecipherable # Nothing

Rows == [company : Companies, issued : 1..MaxIssued, active : BOOLEAN, key : Keys]
ASSUME RowsAssumption == NoRow \notin Certs \cup Rows

Answers == Certs \cup {Nothing, KeyMissing, Undecipherable}

(* A moment of a call: which certificate was the newest, and whether all   *)
(* that the call needs beside it was there.                                *)
Moments == [newest : Certs \cup {Nothing}, opens : BOOLEAN]

VARIABLES
    cert,      \* certificates: of each id, its row
    key,       \* certificate_crypto_keys
    sealing,   \* the key master-data seals a tenant's certificates with
    object,    \* each session's identity map
    phase,     \* of its call: "idle", "cert", "key" or "done"
    asked,     \* the tenant and the company it asks about
    taken,     \* the certificate its first SELECT returned
    answer,
    moments    \* (history) what there was to be seen since the call began

tables == <<cert, key, sealing>>
reads  == <<phase, asked, taken, answer>>
vars   == <<tables, object, reads, moments>>

TypeOK ==
    /\ cert \in [Certs -> Rows \cup {NoRow}]
    /\ key \in [Tenants -> Keys \cup {NoKey}]
    /\ sealing \in [Tenants -> Keys]
    /\ object \in [Sessions -> [Certs -> Rows \cup {NoRow}]]
    /\ phase \in [Sessions -> {"idle", "cert", "key", "done"}]
    /\ asked \in [Sessions -> Tenants \X Companies]
    /\ taken \in [Sessions -> Certs \cup {NoRow}]
    /\ answer \in [Sessions -> Answers]
    /\ moments \in [Sessions -> SUBSET Moments]

Exists(c) == cert[c] # NoRow

Init ==
    /\ cert = [c \in Certs |-> NoRow]
    /\ key = [t \in Tenants |-> NoKey]
    /\ sealing \in [Tenants -> Keys]
    /\ object = [s \in Sessions |-> [c \in Certs |-> NoRow]]
    /\ phase = [s \in Sessions |-> "idle"]
    /\ asked \in [Sessions -> Tenants \X Companies]
    /\ taken = [s \in Sessions |-> NoRow]
    /\ answer = [s \in Sessions |-> Nothing]
    /\ moments = [s \in Sessions |-> {}]
-----------------------------------------------------------------------------
(* What is to be seen of company co of tenant t: no active certificate, or *)
(* one that no active one is newer than; and its key, where that matters.  *)
Sights(t, co, material) ==
    LET Current(c) == /\ Exists(c) /\ cert[c].active
                      /\ cert[c].company = co /\ OwnerOf[co] = t
        newest == {c \in Certs : /\ Current(c)
                                 /\ \A d \in Certs : Current(d)
                                                    => cert[d].issued <= cert[c].issued}
    IN  [newest : IF newest = {} THEN {Nothing} ELSE newest,
         opens  : {material => key[t] # NoKey}]

(* Every call that is under way sees the tables master-data has committed. *)
Witnessed ==
    /\ UNCHANGED reads
    /\ moments' = [s \in Sessions |->
                     IF phase[s] \in {"cert", "key"}
                     THEN moments[s] \cup Sights(asked[s][1], asked[s][2], TRUE)'
                     ELSE moments[s]]

(* A certificate is issued; a tenant's first one brings its key.           *)
Issue(c, co, n) ==
    LET t == OwnerOf[co] IN
    /\ ~Exists(c)
    /\ cert' = [cert EXCEPT ![c] =
                  [company |-> co, issued |-> n, active |-> TRUE, key |-> sealing[t]]]
    /\ key' = IF t \in Legacy THEN key ELSE [key EXCEPT ![t] = sealing[t]]
    /\ UNCHANGED <<sealing, object>>
    /\ Witnessed

Switch(c) ==
    /\ Exists(c)
    /\ cert' = [cert EXCEPT ![c].active = ~@]
    /\ UNCHANGED <<key, sealing, object>>
    /\ Witnessed

(* The key of a legacy tenant is relocated to the account's database.      *)
Relocate(t) ==
    /\ t \in Legacy /\ key[t] = NoKey
    /\ key' = [key EXCEPT ![t] = sealing[t]]
    /\ UNCHANGED <<cert, sealing, object>>
    /\ Witnessed

(* One transaction replaces a tenant's key and seals its rows with it.     *)
Rekey(t, k) ==
    /\ k # sealing[t]
    /\ sealing' = [sealing EXCEPT ![t] = k]
    /\ key' = IF key[t] = NoKey THEN key ELSE [key EXCEPT ![t] = k]
    /\ cert' = [c \in Certs |->
                  IF Exists(c) /\ OwnerOf[cert[c].company] = t
                  THEN [cert[c] EXCEPT !.key = k] ELSE cert[c]]
    /\ UNCHANGED object
    /\ Witnessed
-----------------------------------------------------------------------------
(* The WHERE of get_active_certificate and list_active_certificates.       *)
Active(t, co) ==
    {c \in Certs : Exists(c) /\ cert[c].company = co /\ OwnerOf[co] = t /\ cert[c].active}

(* A fault of Latest: no ORDER BY.                                         *)
AnyActive(t, co) == Active(t, co)

(* ORDER BY issued_at DESC LIMIT 1: any of the latest.                     *)
Latest(t, co) ==
    {c \in Active(t, co) : \A d \in Active(t, co) : cert[d].issued <= cert[c].issued}

(* A SELECT of entities fills the session's identity map, where it does    *)
(* not hold them already.                                                  *)
Loads(s, ids) ==
    object' = [object EXCEPT ![s] =
                 [c \in Certs |-> IF c \in ids /\ @[c] = NoRow THEN cert[c] ELSE @[c]]]

(* A call about tenant t and company co begins.                            *)
Asks(s, t, co, material) ==
    /\ phase[s] = "idle"
    /\ asked' = [asked EXCEPT ![s] = <<t, co>>]
    /\ moments' = [moments EXCEPT ![s] = Sights(t, co, material)]

(* get_active_certificate and list_active_certificates: one SELECT, one of *)
(* whose rows, the first, is the answer.                                   *)
GetMetadata(s, t, co) ==
    /\ Asks(s, t, co, FALSE)
    /\ \E ids \in IF Latest(t, co) = {} THEN {{}}
                  ELSE {{c} : c \in Latest(t, co)} \cup {Active(t, co)} :
          /\ Loads(s, ids)
          /\ IF ids = {} THEN answer' = [answer EXCEPT ![s] = Nothing]
             ELSE \E c \in ids \cap Latest(t, co) : answer' = [answer EXCEPT ![s] = c]
    /\ phase' = [phase EXCEPT ![s] = "done"]
    /\ UNCHANGED <<tables, taken>>

(* get_active_certificate_material: the certificate first ...              *)
GetMaterial(s, t, co) ==
    /\ Asks(s, t, co, TRUE)
    /\ phase' = [phase EXCEPT ![s] = "cert"]
    /\ UNCHANGED <<tables, object, taken, answer>>

SelectCertificate(s) ==
    LET found == Latest(asked[s][1], asked[s][2]) IN
    /\ phase[s] = "cert"
    /\ \/ /\ found = {}
          /\ answer' = [answer EXCEPT ![s] = Nothing]
          /\ phase' = [phase EXCEPT ![s] = "done"]
          /\ UNCHANGED <<object, taken>>
       \/ \E c \in found :
          /\ Loads(s, {c})
          /\ taken' = [taken EXCEPT ![s] = c]
          /\ phase' = [phase EXCEPT ![s] = "key"]
          /\ UNCHANGED answer
    /\ UNCHANGED <<tables, asked, moments>>

(* A fault of TenantKey: the SELECT of the key takes another tenant's.     *)
AnyKey(t) == key[CHOOSE u \in Tenants : u # t]

(* _tenant_cert_key.                                                       *)
TenantKey(t) == key[t]

(* ... then the key, which the session's copy of the row may predate.  That*)
(* a key is a Fernet key and a password UTF-8 is up to master-data, which  *)
(* made them; from any other the call would raise a ValueError.            *)
SelectKey(s) ==
    LET k == TenantKey(asked[s][1]) IN
    /\ phase[s] = "key"
    /\ answer' = [answer EXCEPT ![s] =
                    IF k = NoKey THEN KeyMissing
                    ELSE IF object[s][taken[s]].key = k THEN taken[s]
                    ELSE Undecipherable]
    /\ phase' = [phase EXCEPT ![s] = "done"]
    /\ taken' = [taken EXCEPT ![s] = NoRow]
    /\ UNCHANGED <<tables, object, asked, moments>>

(* The caller takes the answer.                                            *)
Take(s) ==
    /\ phase[s] = "done"
    /\ phase' = [phase EXCEPT ![s] = "idle"]
    /\ answer' = [answer EXCEPT ![s] = Nothing]
    /\ moments' = [moments EXCEPT ![s] = {}]
    /\ UNCHANGED <<tables, object, asked, taken>>

(* Between calls: the caller drops an entity, and the identity map with    *)
(* it; or the transaction ends, which expires all of them unless it is a   *)
(* commit that keeps them; or the session ends and another takes its place.*)
Release(s, c) ==
    /\ phase[s] = "idle" /\ object[s][c] # NoRow
    /\ object' = [object EXCEPT ![s][c] = NoRow]
    /\ UNCHANGED <<tables, reads, moments>>

Commit(s) ==
    /\ phase[s] = "idle"
    /\ object' = IF KeepOnCommit THEN object
                 ELSE [object EXCEPT ![s] = [c \in Certs |-> NoRow]]
    /\ UNCHANGED <<tables, reads, moments>>

Rollback(s) ==
    /\ phase[s] = "idle"
    /\ object' = [object EXCEPT ![s] = [c \in Certs |-> NoRow]]
    /\ UNCHANGED <<tables, reads, moments>>

MasterData ==
    \/ \E c \in Certs, co \in Companies, n \in 1..MaxIssued : Issue(c, co, n)
    \/ \E c \in Certs : Switch(c)
    \/ \E t \in Tenants : Relocate(t)
    \/ \E t \in Tenants, k \in Keys : Rekey(t, k)

Reader(s) ==
    \/ \E t \in Tenants, co \in Companies : GetMetadata(s, t, co) \/ GetMaterial(s, t, co)
    \/ SelectCertificate(s) \/ SelectKey(s) \/ Take(s)
    \/ \E c \in Certs : Release(s, c)
    \/ Commit(s) \/ Rollback(s)

Next == MasterData \/ \E s \in Sessions : Reader(s)

Spec == Init /\ [][Next]_vars
-----------------------------------------------------------------------------
(* What a call would answer if all it read were of that moment.            *)
AnswerAt(m) ==
    IF m.newest = Nothing \/ m.opens THEN m.newest ELSE KeyMissing

(* Answer a, about tenant t, is what the tables would have answered at one *)
(* of the moments M; or the key of a legacy tenant has come in meanwhile.  *)
Justified(a, t, M) ==
    \/ \E m \in M : a = AnswerAt(m)
    \/ /\ t \in Legacy
       /\ \E m \in M : m.newest = a /\ ~m.opens
       /\ \E m \in M : m.opens

(* A call makes two SELECTs and the tables may change between them; still, *)
(* None, CertificateKeyMissing and the certificate it returns are each     *)
(* what the tables would have answered at some one moment of the call: no  *)
(* "inconsistent state" is reported (repository.py:313-315) that never was.*)
(* There is one exception: when the key of a legacy tenant comes in during *)
(* the call, the certificate may be the newest of a moment before that,    *)
(* and be superseded by the time it can be opened.                         *)
HonestAnswer ==
    \A s \in Sessions :
        phase[s] = "done" /\ answer[s] # Undecipherable =>
            Justified(answer[s], asked[s][1], moments[s])

(* CertificateDecryptError never means that the database holds material    *)
(* its key does not open: it is raised only when the row has been sealed   *)
(* anew since the session loaded it.                                       *)
OnlyOutdatedIsUndecipherable ==
    [][\A s \in Sessions :
         answer'[s] = Undecipherable /\ answer[s] # Undecipherable
            => object[s][taken[s]].key # cert[taken[s]].key]_vars

(* ADR 0004:96, "Leitura e sempre a verdade atual": the entity a call      *)
(* returns has the attributes of its row, the ciphertext among them.       *)
ReadIsCurrent ==
    [][\A s \in Sessions :
         phase[s] = "idle" /\ phase'[s] = "done" /\ answer'[s] \in Certs
            => object'[s][answer'[s]] = cert[answer'[s]]]_vars

(* What master-data keeps true: rows are sealed with the tenant's current  *)
(* key, which is the one in the table where there is one, and a tenant     *)
(* that is not legacy has one as soon as it has a certificate.             *)
TablesInv ==
    /\ \A t \in Tenants : key[t] # NoKey => key[t] = sealing[t]
    /\ \A c \in Certs : Exists(c) =>
          LET t == OwnerOf[cert[c].company] IN
          cert[c].key = sealing[t] /\ (t \notin Legacy => key[t] # NoKey)

(* The entity a call has taken is loaded, and was the newest at a moment of*)
(* the call when its key was there too, or, for a legacy tenant, when it   *)
(* was missing; and if the key is there now, the call has lived to see it. *)
Holds(s, c, t) ==
    /\ c \in Certs /\ Exists(c) /\ object[s][c] # NoRow
    /\ OwnerOf[cert[c].company] = t
    /\ \/ [newest |-> c, opens |-> TRUE] \in moments[s] /\ key[t] # NoKey
       \/ [newest |-> c, opens |-> FALSE] \in moments[s] /\ t \in Legacy
    /\ key[t] # NoKey => \E m \in moments[s] : m.opens

TakenInv ==
    \A s \in Sessions : phase[s] = "key" => Holds(s, taken[s], asked[s][1])

(* A call that has not read yet counts the present among its moments.      *)
AskedInv ==
    \A s \in Sessions : phase[s] = "cert" =>
        Sights(asked[s][1], asked[s][2], TRUE) \subseteq moments[s]

CInv == TypeOK /\ TablesInv /\ TakenInv /\ AskedInv /\ HonestAnswer
=============================================================================
