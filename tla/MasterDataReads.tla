-------------------------- MODULE MasterDataReads --------------------------
(***************************************************************************)
(* The reads of MasterDataRepository that are one SELECT each              *)
(* (masterdata/repository.py): entities by id or by a unique code, lists,  *)
(* and operation natures, where the rows of the system's tenant complete a *)
(* tenant's own.  One set of rows stands for each of the tables; `code' is *)
(* the unique column a row is found by.                                    *)
(*                                                                         *)
(* master-data changes rows at any time, and the schema as SchemaDrift     *)
(* says.  Which entities a SELECT returns does not depend on the identity  *)
(* map of its session, which CertificateReader has.                        *)
(***************************************************************************)
EXTENDS SchemaDrift, Naturals, FiniteSets

CONSTANTS
    Tenants, System,   \* SYSTEM_TENANT_ID
    Ids, TenantOf,     \* a row stays with its tenant
    MaxCode,           \* bound on codes, which are sorted as numbers
    Limit,             \* `limit' of a list
    NoRow

ASSUME TenantsAssumption == System \in Tenants /\ TenantOf \in [Ids -> Tenants]
ASSUME IdsAssumption == IsFiniteSet(Ids)
ASSUME BoundsAssumption == MaxCode \in Nat \ {0} /\ Limit \in Nat \ {0}

Codes == 1..MaxCode
Rows  == [code : Codes, active : BOOLEAN]

ASSUME RowsAssumption == NoRow \notin Rows

VARIABLES
    row,      \* the rows there are
    result    \* what each spoke's last call asked and got

vars == <<drift, row, result>>

(* `ids' are the entities it got; `whose' those tenants' it asked for.     *)
Idle == [call |-> "idle", whose |-> {}, code |-> 0, ids |-> {}]
Calls == {"one", "multiple", "list", "active natures", "all natures", "nature", "undefined"}
Results == {Idle} \cup
    [call : Calls, whose : SUBSET Tenants, code : Codes \cup {0}, ids : SUBSET Ids]

TypeOK ==
    /\ row \in [Ids -> Rows \cup {NoRow}]
    /\ result \in [Spokes -> Results]

Init ==
    /\ DriftInit
    /\ row = [i \in Ids |-> NoRow]
    /\ result = [s \in Spokes |-> Idle]

(* Every transaction of master-data leaves a code to one row of a tenant.  *)
Unique(table) ==
    \A i, j \in Ids :
        /\ i # j /\ TenantOf[i] = TenantOf[j] /\ table[i] # NoRow /\ table[j] # NoRow
        => table[i].code # table[j].code

Write(i) ==
    /\ \E r \in Rows \cup {NoRow} : row' = [row EXCEPT ![i] = r]
    /\ Unique(row')
    /\ UNCHANGED <<drift, result>>
-----------------------------------------------------------------------------
(* A fault of Of: a WHERE without the tenant.                              *)
OfAnyTenant(whose) == {i \in Ids : row[i] # NoRow}

(* WHERE tenant_id IN whose.                                               *)
Of(whose) == {i \in Ids : row[i] # NoRow /\ TenantOf[i] \in whose}

WithCode(whose, k) == {i \in Of(whose) : row[i].code = k}
ActiveIf(activeOnly, ids) == {i \in ids : activeOnly => row[i].active}

(* ORDER BY legal_name LIMIT: any rows may have the names that come first. *)
IsCutByName(ids, all) ==
    /\ ids \subseteq all
    /\ Cardinality(ids) = IF Cardinality(all) <= Limit THEN Cardinality(all) ELSE Limit

(* ORDER BY code LIMIT: rows of one code are in no order of their own.     *)
IsCut(ids, all) ==
    /\ ids \subseteq all
    /\ Cardinality(ids) = IF Cardinality(all) <= Limit THEN Cardinality(all) ELSE Limit
    /\ \A i \in ids, j \in all \ ids : row[i].code <= row[j].code

Answers(s, call, whose, k, ids) ==
    /\ result[s] = Idle
    /\ result' = [result EXCEPT ![s] = [call |-> call, whose |-> whose, code |-> k, ids |-> ids]]
    /\ UNCHANGED <<drift, row>>

(* The database refuses a SELECT of what it does not have.                 *)
Refused(s, table) ==
    /\ table \in DOMAIN Mapped[sdk[s]] /\ ~Readable(s, table)
    /\ Answers(s, "undefined", {}, 0, {})

(* scalar_one_or_none: None, the entity, or MultipleResultsFound.          *)
OneOrNone(s, t, k, found) ==
    Answers(s, IF Cardinality(found) > 1 THEN "multiple" ELSE "one", {t}, k, found)

(* get_company, get_product, get_participant.                              *)
GetById(s, t, i) == OneOrNone(s, t, 0, Of({t}) \cap {i})

(* get_company_by_tax_id, get_product_by_code, get_unit, and the like.     *)
GetByCode(s, t, k) == OneOrNone(s, t, k, WithCode({t}, k))

(* list_products_by_codes.                                                 *)
ListByCodes(s, t, ks) ==
    Answers(s, "list", {t}, 0, UNION {WithCode({t}, k) : k \in ks})

(* list_products, which has the order and the limit of the natures' list.  *)
ListProducts(s, t, activeOnly) ==
    \E ids \in SUBSET Ids :
        /\ IsCut(ids, ActiveIf(activeOnly, Of({t})))
        /\ Answers(s, "list", {t}, 0, ids)

(* list_companies, list_participants.                                      *)
ListByName(s, t, activeOnly) ==
    \E ids \in SUBSET Ids :
        /\ IsCutByName(ids, ActiveIf(activeOnly, Of({t})))
        /\ Answers(s, "list", {t}, 0, ids)

(* list_units: all of them.                                                *)
ListUnits(s, t, activeOnly) ==
    Answers(s, "list", {t}, 0, ActiveIf(activeOnly, Of({t})))

Visible(t, includeSystem) == IF includeSystem THEN {t, System} ELSE {t}

ListNatures(s, t, activeOnly, includeSystem) ==
    LET whose == Visible(t, includeSystem) IN
    \E ids \in SUBSET Ids :
        /\ IsCut(ids, ActiveIf(activeOnly, Of(whose)))
        /\ Answers(s, IF activeOnly THEN "active natures" ELSE "all natures", whose, 0, ids)

(* A fault of OwnFirst: the rows as they come.                             *)
AnyFirst(t, found) == found

(* rows.sort(key=lambda r: r.tenant_id != tid); rows[0].                   *)
OwnFirst(t, found) ==
    {i \in found : TenantOf[i] = t \/ \A j \in found : TenantOf[j] # t}

GetNatureByCode(s, t, k, includeSystem) ==
    LET whose == Visible(t, includeSystem)
        found == WithCode(whose, k) IN
    \/ found = {} /\ Answers(s, "nature", whose, k, {})
    \/ \E i \in OwnFirst(t, found) : Answers(s, "nature", whose, k, {i})

(* The caller takes the result.                                            *)
Take(s) ==
    /\ result[s] # Idle
    /\ result' = [result EXCEPT ![s] = Idle]
    /\ UNCHANGED <<drift, row>>

Call(s) ==
    \E t \in Tenants :
        \/ \E i \in Ids : GetById(s, t, i)
        \/ \E k \in Codes : GetByCode(s, t, k)
        \/ \E ks \in (SUBSET Codes) \ {{}} : ListByCodes(s, t, ks)
        \/ \E active \in BOOLEAN :
              ListProducts(s, t, active) \/ ListByName(s, t, active) \/ ListUnits(s, t, active)
        \/ \E active, system \in BOOLEAN : ListNatures(s, t, active, system)
        \/ \E k \in Codes, system \in BOOLEAN : GetNatureByCode(s, t, k, system)

Next ==
    \/ DriftNext /\ UNCHANGED <<row, result>>
    \/ \E i \in Ids : Write(i)
    \/ \E s \in Spokes :
          \/ Take(s)
          \/ \E table \in Tables :
                Refused(s, table) \/ (Readable(s, table) /\ Call(s))
          \/ \E t \in Tenants : ListByCodes(s, t, {})   \* asks the database nothing

Spec == Init /\ [][Next]_vars
-----------------------------------------------------------------------------
Returns(s) == result[s] = Idle /\ result'[s] # Idle

(* Whoever shares a code, a call gets rows of the tenant it names only (and*)
(* the system's natures), and no get ends in MultipleResultsFound, for     *)
(* codes are unique within a tenant.                                       *)
TenantScoped ==
    \A s \in Spokes :
        /\ result[s].call # "multiple"
        /\ \A i \in result[s].ids : TenantOf[i] \in result[s].whose

ReadsInv == TypeOK /\ DriftInv /\ Unique(row) /\ TenantScoped

(* repository.py:244-245: the tenant's nature comes before the system's of *)
(* the same code, whatever order the rows came in.                         *)
TenantOverrides ==
    [][\A s \in Spokes : Returns(s) /\ result'[s].call = "nature" =>
         \A t \in result'[s].whose \ {System} :
             \A i \in WithCode({t}, result'[s].code) : result'[s].ids = {i}]_vars

(* repository.py:223-225 leaves it to the consumer which of two natures of *)
(* one code overrides.  It decides on all natures as                       *)
(* get_operation_nature_by_code does, for each code before the last one of *)
(* the list, however the list is cut.                                      *)
ListAgreesWithGet ==
    [][\A s \in Spokes : Returns(s) /\ result'[s].call = "all natures" =>
         \A t \in result'[s].whose \ {System}, last \in result'[s].ids :
             \A k \in 1..row[last].code - 1 :
                 OwnFirst(t, {i \in result'[s].ids : row[i].code = k})
                     = OwnFirst(t, WithCode(result'[s].whose, k))]_vars

(* drift.py:3-6, 18-19: a read fails for want of a table or column only    *)
(* when the spoke's SDK maps what the SDK that was checked did not: the    *)
(* check looked at the schema with another version.                        *)
CheckedReadsWork ==
    [][\A s \in Spokes : Returns(s) /\ result'[s].call = "undefined"
         => ~Within(sdk[s], vetted)]_vars
=============================================================================
