---------------------------- MODULE SchemaDrift ----------------------------
(***************************************************************************)
(* The read-models of the SDK against the schema of master-data, and the   *)
(* check of masterdata/drift.py that the CI of master-data makes with the  *)
(* SDK it has installed, while spokes run versions of their own and the    *)
(* database is migrated some time after a schema was merged.               *)
(***************************************************************************)
CONSTANTS
    Spokes,
    Tables, Columns,
    Versions,   \* releases of the SDK
    Mapped      \* ReadBase.metadata of each: its tables and their columns

(* A schema has some of the tables, each with some of the columns.         *)
Schemas == UNION {[T -> SUBSET Columns] : T \in SUBSET Tables}

ASSUME MappedAssumption == Versions # {} /\ Mapped \in [Versions -> Schemas]

VARIABLES
    schema,   \* of the database the spokes read
    head,     \* MasterDataBase.metadata as last merged
    pinned,   \* the SDK the CI of master-data installs
    vetted,   \* (history) the one it had when it checked `schema'
    sdk       \* the SDK of each spoke

drift == <<schema, head, pinned, vetted, sdk>>

DriftTypeOK ==
    /\ schema \in Schemas /\ head \in Schemas
    /\ pinned \in Versions /\ vetted \in Versions
    /\ sdk \in [Spokes -> Versions]
-----------------------------------------------------------------------------
(* A fault of Problems: a table that is there is looked at no further.     *)
TableProblems(v, real) == {<<t, "missing">> : t \in DOMAIN Mapped[v] \ DOMAIN real}

(* check_models_against: tables that do not exist, and columns of those    *)
(* that do.                                                                *)
Problems(v, real) ==
    {<<t, "missing">> : t \in DOMAIN Mapped[v] \ DOMAIN real}
        \cup UNION {{<<t, c>> : c \in Mapped[v][t] \ real[t]} :
                      t \in DOMAIN Mapped[v] \cap DOMAIN real}

(* assert_no_drift does not raise.                                         *)
NoDrift(v, real) == Problems(v, real) = {}

(* A SELECT of an entity names every column its model maps.                *)
Readable(s, t) ==
    t \in DOMAIN Mapped[sdk[s]] /\ t \in DOMAIN schema /\ Mapped[sdk[s]][t] \subseteq schema[t]

DriftInit ==
    /\ pinned \in Versions /\ vetted = pinned
    /\ sdk \in [Spokes -> Versions]
    /\ schema \in Schemas /\ NoDrift(pinned, schema) /\ head = schema

(* master-data merges a change of its schema when its CI is green ...      *)
Merge(new) ==
    /\ NoDrift(pinned, new) /\ head' = new
    /\ UNCHANGED <<schema, pinned, vetted, sdk>>

(* ... which it must be as well to install another SDK ...                 *)
Pin(v) ==
    /\ NoDrift(v, head) /\ pinned' = v
    /\ vetted' = IF head = schema THEN v ELSE vetted
    /\ UNCHANGED <<schema, head, sdk>>

(* ... and migrates the database later.                                    *)
Migrate ==
    /\ schema' = head /\ vetted' = pinned
    /\ UNCHANGED <<head, pinned, sdk>>

(* A spoke goes to any version at any time.                                *)
Upgrade(s, v) ==
    /\ sdk' = [sdk EXCEPT ![s] = v]
    /\ UNCHANGED <<schema, head, pinned, vetted>>

DriftNext ==
    \/ \E new \in Schemas : Merge(new)
    \/ \E v \in Versions : Pin(v) \/ \E s \in Spokes : Upgrade(s, v)
    \/ Migrate
-----------------------------------------------------------------------------
(* Every model of version v is one of version w, or part of one.           *)
Within(v, w) ==
    \A t \in DOMAIN Mapped[v] : t \in DOMAIN Mapped[w] /\ Mapped[v][t] \subseteq Mapped[w][t]

DriftInv == DriftTypeOK /\ NoDrift(pinned, head) /\ NoDrift(vetted, schema)
=============================================================================
