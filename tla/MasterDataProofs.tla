------------------------- MODULE MasterDataProofs -------------------------
(***************************************************************************)
(* Proofs about MasterDataReads, and the SchemaDrift it extends, for any   *)
(* spokes, tables, versions, tenants and rows.                             *)
(***************************************************************************)
EXTENDS MasterDataReads, FiniteSetTheorems, TLAPS

(* assert_no_drift is silent exactly if every model is within the schema.  *)
LEMMA NoDriftMeans ==
    ASSUME NEW v, NEW real
    PROVE  NoDrift(v, real)
              <=> \A t \in DOMAIN Mapped[v] : t \in DOMAIN real /\ Mapped[v][t] \subseteq real[t]
<1>1. ASSUME NoDrift(v, real), NEW t \in DOMAIN Mapped[v]
      PROVE  t \in DOMAIN real /\ Mapped[v][t] \subseteq real[t]
  <2>1. t \in DOMAIN real
    <3>1. SUFFICES ASSUME t \notin DOMAIN real
                   PROVE  <<t, "missing">> \in Problems(v, real)
      BY <1>1 DEF NoDrift
    <3>2. <<t, "missing">> \in {<<u, "missing">> : u \in DOMAIN Mapped[v] \ DOMAIN real}
      BY <1>1, <3>1
    <3>3. QED
      BY <3>2 DEF Problems
  <2>2. ASSUME NEW c \in Mapped[v][t], c \notin real[t]
        PROVE  FALSE
    <3>1. <<t, c>> \in {<<t, d>> : d \in Mapped[v][t] \ real[t]}
      BY <2>2
    <3>2. <<t, c>> \in Problems(v, real)
      BY <2>1, <3>1 DEF Problems
    <3>3. QED
      BY <1>1, <3>2 DEF NoDrift
  <2>3. QED
    BY <2>1, <2>2
<1>2. ASSUME \A t \in DOMAIN Mapped[v] : t \in DOMAIN real /\ Mapped[v][t] \subseteq real[t]
      PROVE  NoDrift(v, real)
  BY <1>2 DEF NoDrift, Problems
<1>3. QED
  BY <1>1, <1>2

LEMMA DriftInitInv == DriftInit => DriftInv
BY DEF DriftInit, DriftInv, DriftTypeOK

LEMMA DriftKept ==
    ASSUME DriftInv, DriftNext
    PROVE  DriftInv'
<1>1. CASE \E new \in Schemas : Merge(new)
  BY <1>1 DEF DriftInv, DriftTypeOK, Merge
<1>2. CASE \E v \in Versions : Pin(v)
  BY <1>2 DEF DriftInv, DriftTypeOK, Pin
<1>3. CASE \E v \in Versions, s \in Spokes : Upgrade(s, v)
  BY <1>3 DEF DriftInv, DriftTypeOK, Upgrade
<1>4. CASE Migrate
  BY <1>4 DEF DriftInv, DriftTypeOK, Migrate
<1>5. QED
  BY <1>1, <1>2, <1>3, <1>4 DEF DriftNext

LEMMA DriftStays ==
    ASSUME DriftInv, UNCHANGED drift
    PROVE  DriftInv'
BY DEF DriftInv, DriftTypeOK, drift
-----------------------------------------------------------------------------
(* At most one row of a tenant has a code.                                 *)
LEMMA OneOfACode ==
    ASSUME Unique(row), NEW t, NEW k
    PROVE  Cardinality(WithCode({t}, k)) <= 1
<1>1. CASE WithCode({t}, k) = {}
  BY <1>1, FS_EmptySet
<1>2. ASSUME NEW i \in WithCode({t}, k)
      PROVE  Cardinality(WithCode({t}, k)) <= 1
  <2>1. WithCode({t}, k) = {i}
    BY DEF WithCode, Of, Unique
  <2>2. Cardinality(WithCode({t}, k)) = 1
    BY <2>1, FS_Singleton, Zenon
  <2>3. QED
    BY <2>2
<1>3. QED
  BY <1>1, <1>2

LEMMA OneOfAnId ==
    ASSUME NEW t, NEW i
    PROVE  Cardinality(Of({t}) \cap {i}) <= 1
<1>1. CASE Of({t}) \cap {i} = {}
  BY <1>1, FS_EmptySet
<1>2. CASE Of({t}) \cap {i} = {i}
  <2>1. Cardinality(Of({t}) \cap {i}) = 1
    BY <1>2, FS_Singleton, Zenon
  <2>2. QED
    BY <2>1
<1>3. QED
  BY <1>1, <1>2

(* What a call may answer: rows of those it asks for.                      *)
Fitting(call, whose, k, ids) ==
    /\ call \in Calls \ {"multiple"}
    /\ whose \in SUBSET Tenants
    /\ k \in Codes \cup {0}
    /\ ids \in SUBSET Ids
    /\ \A i \in ids : TenantOf[i] \in whose

LEMMA FittingKept ==
    ASSUME ReadsInv, NEW s \in Spokes,
           NEW call, NEW whose, NEW k, NEW ids,
           Fitting(call, whose, k, ids), Answers(s, call, whose, k, ids)
    PROVE  ReadsInv'
<1> DEFINE r == [call |-> call, whose |-> whose, code |-> k, ids |-> ids]
<1>1. r \in Results
  BY DEF Fitting, Results
<1>2. result' = [result EXCEPT ![s] = r] /\ UNCHANGED <<drift, row>>
  BY DEF Answers
<1>3. TypeOK'
  BY <1>1, <1>2 DEF ReadsInv, TypeOK
<1>4. DriftInv'
  BY <1>2, DriftStays DEF ReadsInv
<1>5. Unique(row)'
  BY <1>2 DEF ReadsInv, Unique
<1>6. TenantScoped'
  BY <1>2 DEF ReadsInv, TypeOK, TenantScoped, Fitting, Calls
<1>7. QED
  BY <1>3, <1>4, <1>5, <1>6 DEF ReadsInv

LEMMA OfFits ==
    ASSUME NEW whose
    PROVE  /\ Of(whose) \subseteq Ids /\ \A i \in Of(whose) : TenantOf[i] \in whose
           /\ \A k : WithCode(whose, k) \subseteq Of(whose)
           /\ \A active, all : ActiveIf(active, all) \subseteq all
BY DEF Of, WithCode, ActiveIf

LEMMA VisibleFits ==
    ASSUME NEW t \in Tenants, NEW system \in BOOLEAN
    PROVE  Visible(t, system) \in SUBSET Tenants
BY TenantsAssumption DEF Visible

LEMMA OneOrNoneKept ==
    ASSUME ReadsInv, NEW s \in Spokes, NEW t \in Tenants, NEW k \in Codes \cup {0},
           NEW found, found \subseteq Of({t}), Cardinality(found) <= 1,
           Cardinality(found) \in Nat, OneOrNone(s, t, k, found)
    PROVE  ReadsInv'
<1>1. ~(Cardinality(found) > 1)
  OBVIOUS
<1>2. Answers(s, "one", {t}, k, found)
  BY <1>1 DEF OneOrNone
<1>3. Fitting("one", {t}, k, found)
  BY OfFits DEF Fitting, Calls
<1>4. QED
  BY <1>2, <1>3, FittingKept

LEMMA Finite ==
    ASSUME NEW ids \in SUBSET Ids
    PROVE  Cardinality(ids) \in Nat
BY IdsAssumption, FS_Subset, FS_CardinalityType
-----------------------------------------------------------------------------
LEMMA GetsKept ==
    ASSUME ReadsInv, NEW s \in Spokes, NEW t \in Tenants,
           \/ \E i \in Ids : GetById(s, t, i)
           \/ \E k \in Codes : GetByCode(s, t, k)
    PROVE  ReadsInv'
<1>1. ASSUME NEW i \in Ids, GetById(s, t, i)
      PROVE  ReadsInv'
  <2>1. Of({t}) \cap {i} \subseteq Of({t}) /\ Cardinality(Of({t}) \cap {i}) \in Nat
    BY OfFits, Finite
  <2>2. QED
    BY <1>1, <2>1, OneOfAnId, OneOrNoneKept DEF GetById
<1>2. ASSUME NEW k \in Codes, GetByCode(s, t, k)
      PROVE  ReadsInv'
  <2>1. WithCode({t}, k) \subseteq Of({t}) /\ Cardinality(WithCode({t}, k)) \in Nat
    BY OfFits, Finite
  <2>2. Cardinality(WithCode({t}, k)) <= 1
    BY OneOfACode DEF ReadsInv
  <2>3. QED
    BY <1>2, <2>1, <2>2, OneOrNoneKept DEF GetByCode
<1>3. QED
  BY <1>1, <1>2

(* A list of one tenant's entities, by code, by name or of all.            *)
List(s, t, active) ==
    ListProducts(s, t, active) \/ ListByName(s, t, active) \/ ListUnits(s, t, active)

LEMMA ListAnswers ==
    ASSUME NEW s, NEW t, NEW active \in BOOLEAN, List(s, t, active)
    PROVE  \E ids \in SUBSET Of({t}) : Answers(s, "list", {t}, 0, ids)
<1>1. CASE ListProducts(s, t, active)
  BY <1>1 DEF ListProducts, IsCut, ActiveIf
<1>2. CASE ListByName(s, t, active)
  BY <1>2 DEF ListByName, IsCutByName, ActiveIf
<1>3. CASE ListUnits(s, t, active)
  <2>1. ActiveIf(active, Of({t})) \subseteq Of({t})
    BY DEF ActiveIf
  <2>2. QED
    BY <1>3, <2>1 DEF ListUnits
<1>4. QED
  BY <1>1, <1>2, <1>3 DEF List

LEMMA ListsKept ==
    ASSUME ReadsInv, NEW s \in Spokes, NEW t \in Tenants,
           \/ \E ks \in SUBSET Codes : ListByCodes(s, t, ks)
           \/ \E active \in BOOLEAN : List(s, t, active)
           \/ \E active, system \in BOOLEAN : ListNatures(s, t, active, system)
    PROVE  ReadsInv'
<1>1. ASSUME NEW ks \in SUBSET Codes, ListByCodes(s, t, ks)
      PROVE  ReadsInv'
  <2>1. UNION {WithCode({t}, k) : k \in ks} \subseteq Of({t})
    BY OfFits
  <2>2. Fitting("list", {t}, 0, UNION {WithCode({t}, k) : k \in ks})
    BY <2>1, OfFits DEF Fitting, Calls
  <2>3. QED
    BY <1>1, <2>2, FittingKept DEF ListByCodes
<1>2. ASSUME NEW active \in BOOLEAN, List(s, t, active)
      PROVE  ReadsInv'
  <2>1. PICK ids \in SUBSET Of({t}) : Answers(s, "list", {t}, 0, ids)
    BY <1>2, ListAnswers
  <2>2. Fitting("list", {t}, 0, ids)
    BY OfFits DEF Fitting, Calls
  <2>3. QED
    BY <2>1, <2>2, FittingKept
<1>3. ASSUME NEW active \in BOOLEAN, NEW system \in BOOLEAN, ListNatures(s, t, active, system)
      PROVE  ReadsInv'
  <2> DEFINE whose == Visible(t, system)
             call  == IF active THEN "active natures" ELSE "all natures"
  <2>1. PICK ids \in SUBSET Ids : /\ IsCut(ids, ActiveIf(active, Of(whose)))
                                  /\ Answers(s, call, whose, 0, ids)
    BY <1>3 DEF ListNatures
  <2>2. ids \subseteq Of(whose)
    BY <2>1, OfFits DEF IsCut
  <2>3. call \in Calls \ {"multiple"}
    BY DEF Calls
  <2>4. Fitting(call, whose, 0, ids)
    BY <2>2, <2>3, OfFits, VisibleFits DEF Fitting
  <2>5. QED
    BY <2>1, <2>4, FittingKept
<1>4. QED
  BY <1>1, <1>2, <1>3

LEMMA NatureKept ==
    ASSUME ReadsInv, NEW s \in Spokes, NEW t \in Tenants, NEW k \in Codes,
           NEW system \in BOOLEAN, GetNatureByCode(s, t, k, system)
    PROVE  ReadsInv'
<1> DEFINE whose == Visible(t, system)
           found == WithCode(whose, k)
<1>1. CASE found = {} /\ Answers(s, "nature", whose, k, {})
  <2>1. Fitting("nature", whose, k, {})
    BY VisibleFits DEF Fitting, Calls
  <2>2. QED
    BY <1>1, <2>1, FittingKept
<1>2. ASSUME NEW i \in OwnFirst(t, found), Answers(s, "nature", whose, k, {i})
      PROVE  ReadsInv'
  <2>1. i \in Of(whose)
    BY OfFits DEF OwnFirst
  <2>2. Fitting("nature", whose, k, {i})
    BY <2>1, OfFits, VisibleFits DEF Fitting, Calls
  <2>3. QED
    BY <1>2, <2>2, FittingKept
<1>3. QED
  BY <1>1, <1>2 DEF GetNatureByCode

LEMMA RefusedKept ==
    ASSUME ReadsInv, NEW s \in Spokes, NEW table \in Tables, Refused(s, table)
    PROVE  ReadsInv'
<1>1. Fitting("undefined", {}, 0, {})
  BY DEF Fitting, Calls
<1>2. QED
  BY <1>1, FittingKept DEF Refused

LEMMA TakeKept ==
    ASSUME ReadsInv, NEW s \in Spokes, Take(s)
    PROVE  ReadsInv'
<1>1. result' = [result EXCEPT ![s] = Idle] /\ UNCHANGED <<drift, row>>
  BY DEF Take
<1>2. TypeOK'
  BY <1>1 DEF ReadsInv, TypeOK, Results
<1>3. TenantScoped'
  BY <1>1 DEF ReadsInv, TypeOK, TenantScoped, Idle
<1>4. Unique(row)' /\ DriftInv'
  BY <1>1, DriftStays DEF ReadsInv, Unique
<1>5. QED
  BY <1>2, <1>3, <1>4 DEF ReadsInv

LEMMA WriteKept ==
    ASSUME ReadsInv, NEW i \in Ids, Write(i)
    PROVE  ReadsInv'
<1>1. PICK r \in Rows \cup {NoRow} : row' = [row EXCEPT ![i] = r]
  BY DEF Write
<1>2. TypeOK'
  BY <1>1 DEF ReadsInv, TypeOK, Write
<1>3. TenantScoped' /\ Unique(row)'
  BY DEF Write, ReadsInv, TenantScoped, Unique
<1>4. DriftInv'
  BY DriftStays DEF ReadsInv, Write
<1>5. QED
  BY <1>2, <1>3, <1>4 DEF ReadsInv

LEMMA ReadsInit == Init => ReadsInv
<1> SUFFICES ASSUME Init PROVE ReadsInv
  OBVIOUS
<1>1. TypeOK
  BY DEF Init, TypeOK, Results
<1>2. DriftInv
  BY DriftInitInv DEF Init
<1>3. Unique(row) /\ TenantScoped
  BY DEF Init, Unique, TenantScoped, Idle
<1>4. QED
  BY <1>1, <1>2, <1>3 DEF ReadsInv

(* Each step of the spokes and of master-data.                             *)
LEMMA ReadsNext ==
    ASSUME ReadsInv, [Next]_vars
    PROVE  ReadsInv'
<1>1. CASE DriftNext /\ UNCHANGED <<row, result>>
  <2>1. DriftInv'
    BY <1>1, DriftKept DEF ReadsInv
  <2>2. TypeOK' /\ Unique(row)' /\ TenantScoped'
    BY <1>1 DEF ReadsInv, TypeOK, Unique, TenantScoped
  <2>3. QED
    BY <2>1, <2>2 DEF ReadsInv
<1>2. ASSUME NEW s \in Spokes, NEW t \in Tenants,
             \/ \E i \in Ids : GetById(s, t, i)
             \/ \E k \in Codes : GetByCode(s, t, k)
             \/ \E ks \in SUBSET Codes : ListByCodes(s, t, ks)
             \/ \E active \in BOOLEAN : List(s, t, active)
             \/ \E active, system \in BOOLEAN : ListNatures(s, t, active, system)
             \/ \E k \in Codes, system \in BOOLEAN : GetNatureByCode(s, t, k, system)
      PROVE  ReadsInv'
  BY <1>2, GetsKept, ListsKept, NatureKept
<1>3. ASSUME NEW s \in Spokes, Call(s)
      PROVE  ReadsInv'
  BY <1>2, <1>3 DEF Call, List
<1>4. CASE UNCHANGED vars
  BY <1>4, DriftStays DEF vars, ReadsInv, TypeOK, Unique, TenantScoped
<1>5. QED
  BY <1>1, <1>2, <1>3, <1>4, WriteKept, TakeKept, RefusedKept DEF Next

(* The invariant: types, the drift check's promise, unique codes, and that *)
(* a call's rows are of the tenants it asks for.                           *)
THEOREM ReadsInvariance == Spec => []ReadsInv
<1>1. Init => ReadsInv
  BY ReadsInit
<1>2. ReadsInv /\ [Next]_vars => ReadsInv'
  BY ReadsNext
<1>3. QED
  BY <1>1, <1>2, PTL DEF Spec
-----------------------------------------------------------------------------
(* What a call that returns has got, as far as the theorems need it.       *)
Undefined(s) ==
    /\ result'[s].call = "undefined"
    /\ \E table \in DOMAIN Mapped[sdk[s]] : ~Readable(s, table)

Natures(s, t) ==
    /\ result'[s].call = "all natures"
    /\ result'[s].whose \subseteq {t, System}
    /\ IsCut(result'[s].ids, Of(result'[s].whose))

Nature(s, t) ==
    LET k == result'[s].code  found == WithCode(result'[s].whose, k) IN
    /\ result'[s].call = "nature"
    /\ result'[s].whose \subseteq {t, System}
    /\ \/ found = {}
       \/ \E i \in OwnFirst(t, found) : result'[s].ids = {i}

Got(s) ==
    \/ result'[s].call \in {"one", "multiple", "list", "active natures"}
    \/ Undefined(s)
    \/ \E t \in Tenants : Natures(s, t) \/ Nature(s, t)

LEMMA CallGets ==
    ASSUME ReadsInv, NEW s \in Spokes, Returns(s), NEW r \in Spokes, Call(r)
    PROVE  Got(s)
<1>1. PICK t \in Tenants :
        \/ \E i \in Ids : GetById(r, t, i)
        \/ \E k \in Codes : GetByCode(r, t, k)
        \/ \E ks \in SUBSET Codes : ListByCodes(r, t, ks)
        \/ \E active \in BOOLEAN : List(r, t, active)
        \/ \E active, system \in BOOLEAN : ListNatures(r, t, active, system)
        \/ \E k \in Codes, system \in BOOLEAN : GetNatureByCode(r, t, k, system)
  BY DEF Call, List
<1>2. ASSUME NEW k, NEW found, OneOrNone(r, t, k, found)
      PROVE  Got(s)
  <2> DEFINE call == IF Cardinality(found) > 1 THEN "multiple" ELSE "one"
  <2>1. Answers(r, call, {t}, k, found)
    BY <1>2 DEF OneOrNone
  <2>2. result'[s] = [call |-> call, whose |-> {t}, code |-> k, ids |-> found]
    BY <2>1 DEF Answers, Returns, ReadsInv, TypeOK
  <2>3. QED
    BY <2>2 DEF Got
<1>3. ASSUME NEW ids, Answers(r, "list", {t}, 0, ids)
      PROVE  Got(s)
  <2>1. result'[s] = [call |-> "list", whose |-> {t}, code |-> 0, ids |-> ids]
    BY <1>3 DEF Answers, Returns, ReadsInv, TypeOK
  <2>2. QED
    BY <2>1 DEF Got
<1>4. ASSUME NEW active \in BOOLEAN, NEW system \in BOOLEAN, ListNatures(r, t, active, system)
      PROVE  Got(s)
  <2> DEFINE whose == Visible(t, system)
             kind  == IF active THEN "active natures" ELSE "all natures"
  <2>1. PICK ids \in SUBSET Ids : /\ IsCut(ids, ActiveIf(active, Of(whose)))
                                  /\ Answers(r, kind, whose, 0, ids)
    BY <1>4 DEF ListNatures
  <2>2. CASE active
    <3>1. Answers(r, "active natures", whose, 0, ids)
      BY <2>1, <2>2, Zenon
    <3>2. result'[s].call = "active natures"
      BY <3>1 DEF Answers, Returns, ReadsInv, TypeOK
    <3>3. QED
      BY <3>2 DEF Got
  <2>3. CASE ~active
    <3>1. ActiveIf(active, Of(whose)) = Of(whose)
      BY <2>3 DEF ActiveIf
    <3>2. whose \subseteq {t, System}
      BY DEF Visible
    <3>3. Answers(r, "all natures", whose, 0, ids)
      BY <2>1, <2>3, Zenon
    <3>4. IsCut(ids, Of(whose))
      BY <2>1, <3>1
    <3>5. Natures(s, t)
      BY <3>2, <3>3, <3>4 DEF Natures, Answers, Returns, ReadsInv, TypeOK
    <3>6. QED
      BY <3>5 DEF Got
  <2>4. QED
    BY <2>2, <2>3
<1>5. ASSUME NEW k \in Codes, NEW system \in BOOLEAN, GetNatureByCode(r, t, k, system)
      PROVE  Got(s)
  <2> DEFINE whose == Visible(t, system)
             found == WithCode(whose, k)
  <2>1. whose \subseteq {t, System}
    BY DEF Visible
  <2>2. ASSUME found = {}, Answers(r, "nature", whose, k, {})
        PROVE  Nature(s, t)
    <3>1. result'[s] = [call |-> "nature", whose |-> whose, code |-> k, ids |-> {}]
      BY <2>2 DEF Answers, Returns, ReadsInv, TypeOK
    <3>2. QED
      BY <2>1, <2>2, <3>1 DEF Nature
  <2>3. ASSUME NEW i \in OwnFirst(t, found), Answers(r, "nature", whose, k, {i})
        PROVE  Nature(s, t)
    <3>1. result'[s] = [call |-> "nature", whose |-> whose, code |-> k, ids |-> {i}]
      BY <2>3 DEF Answers, Returns, ReadsInv, TypeOK
    <3>2. QED
      BY <2>1, <2>3, <3>1 DEF Nature
  <2>4. QED
    BY <1>5, <2>2, <2>3 DEF GetNatureByCode, Got
<1>6. QED
  BY <1>1, <1>2, <1>3, <1>4, <1>5, ListAnswers DEF GetById, GetByCode, ListByCodes

LEMMA ReturnsGet ==
    ASSUME ReadsInv, [Next]_vars, NEW s \in Spokes, Returns(s)
    PROVE  Got(s)
<1>1. ASSUME NEW r \in Spokes, Take(r)
      PROVE  FALSE
  BY <1>1 DEF Take, Returns, ReadsInv, TypeOK
<1>2. ASSUME NEW r \in Spokes, NEW table \in Tables, Refused(r, table)
      PROVE  Got(s)
  <2>1. /\ r = s
        /\ result'[s] = [call |-> "undefined", whose |-> {}, code |-> 0, ids |-> {}]
    BY <1>2 DEF Refused, Answers, Returns, ReadsInv, TypeOK
  <2>2. Undefined(s)
    BY <1>2, <2>1 DEF Refused, Undefined
  <2>3. QED
    BY <2>2 DEF Got
<1>3. ASSUME NEW r \in Spokes, NEW t \in Tenants, ListByCodes(r, t, {})
      PROVE  Got(s)
  <2> DEFINE found == UNION {WithCode({t}, k) : k \in {}}
  <2>1. Answers(r, "list", {t}, 0, found)
    BY <1>3 DEF ListByCodes
  <2>2. result'[s] = [call |-> "list", whose |-> {t}, code |-> 0, ids |-> found]
    BY <2>1 DEF Answers, Returns, ReadsInv, TypeOK
  <2>3. QED
    BY <2>2 DEF Got
<1>4. result' # result
  BY DEF Returns
<1>5. QED
  BY <1>1, <1>2, <1>3, <1>4, CallGets DEF Next, vars, Write

(* A tenant's nature comes before the system's.                            *)
THEOREM TenantsOverride == Spec => TenantOverrides
<1>1. ASSUME ReadsInv, [Next]_vars, NEW s \in Spokes,
             Returns(s), result'[s].call = "nature",
             NEW t \in result'[s].whose \ {System},
             NEW i \in WithCode({t}, result'[s].code)
      PROVE  result'[s].ids = {i}
  <2> DEFINE k     == result'[s].code
             found == WithCode(result'[s].whose, k)
  <2>1. PICK u \in Tenants : Nature(s, u)
    BY <1>1, ReturnsGet DEF Got, Undefined, Natures
  <2>2. u = t
    BY <2>1 DEF Nature
  <2>3. i \in found /\ TenantOf[i] = t
    BY DEF WithCode, Of
  <2>4. PICK j \in OwnFirst(t, found) : result'[s].ids = {j}
    BY <2>1, <2>2, <2>3 DEF Nature
  <2>5. TenantOf[j] = t /\ j \in found
    BY <2>3 DEF OwnFirst
  <2>6. i = j
    BY <1>1, <2>3, <2>5 DEF ReadsInv, Unique, WithCode, Of
  <2>7. QED
    BY <2>4, <2>6
<1>2. ReadsInv /\ [Next]_vars =>
        [\A s \in Spokes : Returns(s) /\ result'[s].call = "nature" =>
           \A t \in result'[s].whose \ {System} :
               \A i \in WithCode({t}, result'[s].code) : result'[s].ids = {i}]_vars
  BY <1>1
<1>3. QED
  BY <1>2, ReadsInvariance, PTL DEF Spec, TenantOverrides

(* But for its last code, a list of natures shows all there are of a code. *)
THEOREM ListsAgreeWithGets == Spec => ListAgreesWithGet
<1>1. ASSUME ReadsInv, [Next]_vars, NEW s \in Spokes,
             Returns(s), result'[s].call = "all natures",
             NEW t \in result'[s].whose \ {System}, NEW last \in result'[s].ids,
             NEW k \in 1..row[last].code - 1
      PROVE  OwnFirst(t, {i \in result'[s].ids : row[i].code = k})
                = OwnFirst(t, WithCode(result'[s].whose, k))
  <2> DEFINE ids == result'[s].ids
             all == Of(result'[s].whose)
  <2>1. IsCut(ids, all)
    BY <1>1, ReturnsGet DEF Got, Undefined, Natures, Nature
  <2>2. \A i \in all : i \in Ids /\ row[i] \in Rows
    BY <1>1 DEF Of, ReadsInv, TypeOK
  <2>3. last \in all /\ row[last].code \in Nat
    BY <2>1, <2>2, BoundsAssumption DEF IsCut, Rows, Codes
  <2>4. ASSUME NEW i \in all, row[i].code = k
        PROVE  i \in ids
    <3>1. ~(row[last].code <= k)
      BY <2>3
    <3>2. QED
      BY <2>1, <2>4, <3>1 DEF IsCut
  <2>5. {i \in ids : row[i].code = k} = WithCode(result'[s].whose, k)
    BY <2>1, <2>4 DEF WithCode, IsCut
  <2>6. QED
    BY <2>5
<1>2. ReadsInv /\ [Next]_vars =>
        [\A s \in Spokes : Returns(s) /\ result'[s].call = "all natures" =>
           \A t \in result'[s].whose \ {System}, last \in result'[s].ids :
               \A k \in 1..row[last].code - 1 :
                   OwnFirst(t, {i \in result'[s].ids : row[i].code = k})
                       = OwnFirst(t, WithCode(result'[s].whose, k))]_vars
  BY <1>1
<1>3. QED
  BY <1>2, ReadsInvariance, PTL DEF Spec, ListAgreesWithGet

(* What the drift check has let pass, spokes can read that map no more.    *)
THEOREM CheckedReadsSucceed == Spec => CheckedReadsWork
<1>1. ASSUME ReadsInv, [Next]_vars, NEW s \in Spokes,
             Returns(s), result'[s].call = "undefined", Within(sdk[s], vetted)
      PROVE  FALSE
  <2>1. PICK table \in DOMAIN Mapped[sdk[s]] : ~Readable(s, table)
    BY <1>1, ReturnsGet DEF Got, Undefined, Natures, Nature
  <2>2. /\ table \in DOMAIN Mapped[vetted]
        /\ Mapped[sdk[s]][table] \subseteq Mapped[vetted][table]
    BY <1>1 DEF Within
  <2>3. table \in DOMAIN schema /\ Mapped[vetted][table] \subseteq schema[table]
    BY <1>1, <2>2, NoDriftMeans DEF ReadsInv, DriftInv
  <2>4. QED
    BY <2>1, <2>2, <2>3 DEF Readable
<1>2. ReadsInv /\ [Next]_vars =>
        [\A s \in Spokes : Returns(s) /\ result'[s].call = "undefined"
           => ~Within(sdk[s], vetted)]_vars
  BY <1>1
<1>3. QED
  BY <1>2, ReadsInvariance, PTL DEF Spec, CheckedReadsWork
=============================================================================
