-------------------------- MODULE SessionResolver --------------------------
(***************************************************************************)
(* Tenant-bound sessions, inventia_spoke_sdk/db/session.py, as FastAPI     *)
(* requests, arq jobs and tests open them: the registry of one resolver,   *)
(* session_for across its await, and the tenant variable a session sets in *)
(* each of its transactions.                                               *)
(*                                                                         *)
(* The database is PostgreSQL.  A connection has the current value of      *)
(* app.current_tenant (`guc') and, for each of its open transactions and   *)
(* savepoints, the value to go back to (`saved').  A local setting lasts   *)
(* until the outermost transaction ends or its savepoint is rolled back;   *)
(* releasing the savepoint keeps it.                                       *)
(***************************************************************************)
EXTENDS Naturals, Sequences

CONSTANTS
    Tasks,        \* requests, jobs or tests
    Principals,
    Tenants, NoTenant,
    TenantOf,     \* principal.tenant_id
    Connections, NoConn,
    Pools, PoolOf,
    Resolvers,    \* those a spoke registers: [Principals -> Pools \cup {NoPool}]
    NoResolver,
    NoPool,       \* a resolver raises
    Fixtures,     \* pools that are the one connection of a test, on which it has
                  \* begun a transaction (create_rollback_session_factory)
    MaxDepth      \* bound on the savepoints of a session

ASSUME TenantsAssumption ==
    /\ NoTenant \notin Tenants
    /\ TenantOf \in [Principals -> Tenants \cup {NoTenant}]
ASSUME PoolsAssumption ==
    /\ NoConn \notin Connections /\ NoPool \notin Pools
    /\ PoolOf \in [Connections -> Pools]
ASSUME ResolversAssumption ==
    /\ NoResolver \notin Resolvers
    /\ Resolvers \subseteq [Principals -> Pools \cup {NoPool}]
ASSUME FixturesAssumption == Fixtures \subseteq Pools
ASSUME DepthAssumption == MaxDepth \in Nat

VARIABLES
    resolver,   \* _resolver
    stage,      \* of each task: "out", "resolving", "open" or "failed"
    principal,  \* whose session it is
    using,      \* the resolver it awaits
    pool,       \* the engine its session is bound to
    conn,       \* the connection of its session's transaction
    base,       \* what was open on that connection before it
    guc, saved

registry == <<resolver>>
session  == <<principal, using, pool>>
link     == <<conn, base>>
database == <<guc, saved>>
vars     == <<registry, stage, session, link, database>>

TypeOK ==
    /\ resolver \in Resolvers \cup {NoResolver}
    /\ stage \in [Tasks -> {"out", "resolving", "open", "failed"}]
    /\ principal \in [Tasks -> Principals]
    /\ using \in [Tasks -> Resolvers \cup {NoResolver}]
    /\ pool \in [Tasks -> Pools \cup {NoPool}]
    /\ conn \in [Tasks -> Connections \cup {NoConn}]
    /\ base \in [Tasks -> Nat]
    /\ guc \in [Connections -> Tenants \cup {NoTenant}]
    /\ saved \in [Connections -> Seq(Tenants \cup {NoTenant})]

Pooled(c) == PoolOf[c] \notin Fixtures

(* The resolvers tests register: per_principal_resolver has a factory by   *)
(* tenant, and raises for others; that of install_test_resolver ignores    *)
(* the principal.                                                          *)
PerPrincipal(byTenant) ==
    [p \in Principals |-> IF TenantOf[p] \in DOMAIN byTenant THEN byTenant[TenantOf[p]] ELSE NoPool]
ForAnyone(f) == [p \in Principals |-> f]

Init ==
    /\ resolver = NoResolver
    /\ stage = [t \in Tasks |-> "out"]
    /\ principal \in [Tasks -> Principals]
    /\ using = [t \in Tasks |-> NoResolver]
    /\ pool = [t \in Tasks |-> NoPool]
    /\ conn = [t \in Tasks |-> NoConn]
    /\ base = [t \in Tasks |-> 0]
    /\ guc = [c \in Connections |-> NoTenant]
    /\ saved = [c \in Connections |-> IF Pooled(c) THEN <<>> ELSE <<NoTenant>>]
-----------------------------------------------------------------------------
(* configure_session_resolver and reset_session_resolver, at any time.     *)
Configure(r) ==
    /\ resolver' = r
    /\ UNCHANGED <<stage, session, link, database>>

(* session_for looks the resolver up, or raises, and awaits it.            *)
Enter(t, p) ==
    /\ stage[t] = "out"
    /\ principal' = [principal EXCEPT ![t] = p]
    /\ using' = [using EXCEPT ![t] = resolver]
    /\ stage' = [stage EXCEPT ![t] = IF resolver = NoResolver THEN "failed" ELSE "resolving"]
    /\ UNCHANGED <<registry, pool, link, database>>

(* It answers with a factory, or raises; the session is open, bound to no  *)
(* connection yet.                                                         *)
Resolve(t) ==
    /\ stage[t] = "resolving"
    /\ pool' = [pool EXCEPT ![t] = using[t][principal[t]]]
    /\ stage' = [stage EXCEPT ![t] = IF pool'[t] = NoPool THEN "failed" ELSE "open"]
    /\ UNCHANGED <<registry, principal, using, link, database>>

(* A request opens its session by session_dep_for, a job by                *)
(* session_for_job; a test may do without principal, in isolated_session,  *)
(* whose session is bound to no tenant.                                    *)
Request(t, p) == Enter(t, p)
Job(t, p) == Enter(t, p)

Isolated(t, p, f) ==
    /\ stage[t] = "out" /\ TenantOf[p] = NoTenant
    /\ principal' = [principal EXCEPT ![t] = p]
    /\ pool' = [pool EXCEPT ![t] = f]
    /\ stage' = [stage EXCEPT ![t] = "open"]
    /\ UNCHANGED <<registry, using, link, database>>
-----------------------------------------------------------------------------
(* A fault of IsLocal: set_config(..., false).                             *)
ForTheSession == FALSE

(* The third argument of set_config.                                       *)
IsLocal == TRUE

(* The variable after the after_begin event of a session of p.             *)
AfterBegin(p, value) ==
    IF TenantOf[p] = NoTenant THEN value ELSE TenantOf[p]

(* Sessions that share a connection are nested: the last one moves.        *)
Foremost(t) ==
    /\ conn[t] # NoConn
    /\ \A u \in Tasks : conn[u] = conn[t] => base[u] <= base[t]

Depth(t) == Len(saved[conn[t]]) - base[t]

(* A fault of Opens: a savepoint is taken to have the tenant already.      *)
OpensAsIs(t, c) ==
    /\ saved' = [saved EXCEPT ![c] = Append(@, guc[c])]
    /\ guc' = [guc EXCEPT ![c] = IF saved[c] = <<>> THEN AfterBegin(principal[t], @) ELSE @]

(* A transaction or savepoint begins, and the event fires.                 *)
Opens(t, c) ==
    /\ saved' = [saved EXCEPT ![c] = Append(@, guc[c])]
    /\ guc' = [guc EXCEPT ![c] = AfterBegin(principal[t], @)]

(* The first statement of a transaction takes a connection, a free one of  *)
(* the session's pool, and begins a transaction; or it takes the test's and*)
(* begins a savepoint (join_transaction_mode="create_savepoint").          *)
Begin(t, c) ==
    /\ stage[t] = "open" /\ conn[t] = NoConn
    /\ PoolOf[c] = pool[t]
    /\ Pooled(c) => saved[c] = <<>>
    /\ conn' = [conn EXCEPT ![t] = c]
    /\ base' = [base EXCEPT ![t] = Len(saved[c])]
    /\ Opens(t, c)
    /\ UNCHANGED <<registry, stage, session>>

(* begin_nested(), whose event fires as well.                              *)
Nest(t) ==
    /\ Foremost(t) /\ Depth(t) <= MaxDepth
    /\ Opens(t, conn[t])
    /\ UNCHANGED <<registry, stage, session, link>>

(* The savepoint of begin_nested() is released or rolled back.             *)
Unnest(t) ==
    /\ Foremost(t) /\ Depth(t) > 1
    /\ LET c == conn[t]  n == Len(saved[c]) IN
       /\ saved' = [saved EXCEPT ![c] = SubSeq(@, 1, n - 1)]
       /\ guc' \in {guc, [guc EXCEPT ![c] = saved[c][n]]}
    /\ UNCHANGED <<registry, stage, session, link>>

(* A fault of Closes: without join_transaction_mode="create_savepoint" the *)
(* end of a session's transaction is that of the test's as well.           *)
ClosesAll(t, value) ==
    LET c == conn[t] IN
    /\ guc' = [guc EXCEPT ![c] = value]
    /\ saved' = [saved EXCEPT ![c] = <<>>]
    /\ conn' = [conn EXCEPT ![t] = NoConn]
    /\ base' = [base EXCEPT ![t] = 0]

(* The session's transaction is over and its connection is given back.     *)
Closes(t, value) ==
    LET c == conn[t] IN
    /\ guc' = [guc EXCEPT ![c] = value]
    /\ saved' = [saved EXCEPT ![c] = SubSeq(@, 1, base[t])]
    /\ conn' = [conn EXCEPT ![t] = NoConn]
    /\ base' = [base EXCEPT ![t] = 0]

Before(t) == saved[conn[t]][base[t] + 1]

Commit(t) ==
    /\ Foremost(t)
    /\ Closes(t, IF IsLocal /\ base[t] = 0 THEN Before(t) ELSE guc[conn[t]])
    /\ UNCHANGED <<registry, stage, session>>

Rollback(t) ==
    /\ Foremost(t)
    /\ Closes(t, Before(t))
    /\ UNCHANGED <<registry, stage, session>>

(* A fault of Exit: the session is not closed.                             *)
ExitOpen(t) ==
    /\ stage[t] = "open"
    /\ stage' = [stage EXCEPT ![t] = "out"]
    /\ using' = [using EXCEPT ![t] = NoResolver]
    /\ pool' = [pool EXCEPT ![t] = NoPool]
    /\ UNCHANGED <<registry, principal, link, database>>

(* The block of session_for is left, by its end, an exception or a         *)
(* cancellation: the session is closed, its transaction rolled back.       *)
Exit(t) ==
    /\ stage[t] = "open"
    /\ \/ Foremost(t) /\ Closes(t, Before(t))
       \/ conn[t] = NoConn /\ UNCHANGED <<link, database>>
    /\ stage' = [stage EXCEPT ![t] = "out"]
    /\ using' = [using EXCEPT ![t] = NoResolver]
    /\ pool' = [pool EXCEPT ![t] = NoPool]
    /\ UNCHANGED <<registry, principal>>

(* A caller that got an error, or was cancelled while it awaited.          *)
GiveUp(t) ==
    /\ stage[t] \in {"failed", "resolving"}
    /\ stage' = [stage EXCEPT ![t] = "out"]
    /\ using' = [using EXCEPT ![t] = NoResolver]
    /\ pool' = [pool EXCEPT ![t] = NoPool]
    /\ UNCHANGED <<registry, principal, link, database>>

(* A test rolls its transaction back, and the next one begins another.     *)
TestEnds(c) ==
    /\ ~Pooled(c) /\ \A t \in Tasks : conn[t] # c
    /\ guc' = [guc EXCEPT ![c] = saved[c][1]]
    /\ saved' = [saved EXCEPT ![c] = <<guc'[c]>>]
    /\ UNCHANGED <<registry, stage, session, link>>

Next ==
    \/ \E c \in Connections : TestEnds(c)
    \/ \E r \in Resolvers \cup {NoResolver} : Configure(r)
    \/ \E t \in Tasks :
          \/ \E p \in Principals : \/ Request(t, p) \/ Job(t, p)
                                   \/ \E f \in Fixtures : Isolated(t, p, f)
          \/ Resolve(t) \/ Exit(t) \/ GiveUp(t)
          \/ \E c \in Connections : Begin(t, c)
          \/ Nest(t) \/ Unnest(t) \/ Commit(t) \/ Rollback(t)

Spec == Init /\ [][Next]_vars
-----------------------------------------------------------------------------
(* Whatever connection of a pool it is given, whoever had it before and    *)
(* however many savepoints come and go, the statements of a session run    *)
(* under its own principal's tenant, and under none when it has none.      *)
OwnTenant ==
    \A t \in Tasks : Foremost(t) /\ Pooled(conn[t]) =>
        guc[conn[t]] = TenantOf[principal[t]]

(* session.py:35-36, "transaction-local, it never leaks to the next        *)
(* transaction or connection of the pool": when a session's transaction    *)
(* ends, however it does, its tenant ends with it.  (That of a savepoint in*)
(* a test's transaction does not when the session commits.)                *)
NeverLeaks ==
    [][\A t \in Tasks :
         conn[t] # NoConn /\ Pooled(conn[t]) /\ conn'[t] = NoConn
            => guc'[conn[t]] = Before(t)]_vars

(* testing/db.py:54-56: whatever the sessions of a test commit, roll back  *)
(* or abandon, however they nest, the test's own transaction stays open    *)
(* beneath them, and its rollback leaves no tenant to the next test.       *)
TestsUndone ==
    \A c \in Connections : ~Pooled(c) => saved[c] # <<>> /\ saved[c][1] = NoTenant

(* testing/db.py:102-105 and session.py:54-56. In the transaction of a     *)
(* test a tenant outlives the session that set it, so sessions may run     *)
(* under one another's; but only under tenants their pool is for, and      *)
(* under none only if they have none.  So they run under their own tenant  *)
(* where each has a connection of its own.                                 *)
TenantsOf(f) ==
    {TenantOf[p] : p \in {q \in Principals : \E r \in Resolvers : r[q] = f}}
NoOtherTenant ==
    \A t \in Tasks : Foremost(t) =>
        /\ guc[conn[t]] \in TenantsOf(pool[t]) \cup {NoTenant}
        /\ guc[conn[t]] = NoTenant => TenantOf[principal[t]] = NoTenant

(* The invariant behind them.  Sessions on one connection are properly     *)
(* nested, and above the test's transaction where there is one.            *)
StackInv ==
    \A t \in Tasks : conn[t] # NoConn =>
        /\ base[t] < Len(saved[conn[t]])
        /\ ~Pooled(conn[t]) => base[t] > 0
        /\ \A u \in Tasks \ {t} : conn[u] = conn[t] => base[u] # base[t]

(* What is open on a connection of a pool is one session's, and the        *)
(* variable goes back through that session's tenant to none ...            *)
TransactionInv ==
    \A t \in Tasks : conn[t] # NoConn /\ Pooled(conn[t]) =>
        /\ base[t] = 0
        /\ \A u \in Tasks \ {t} : conn[u] # conn[t]
        /\ saved[conn[t]][1] = NoTenant
        /\ guc[conn[t]] = TenantOf[principal[t]]
        /\ \A i \in 2..Len(saved[conn[t]]) : saved[conn[t]][i] = TenantOf[principal[t]]

(* ... and one that nobody uses has nothing open and no tenant on it.      *)
FreeInv ==
    \A c \in Connections :
        Pooled(c) /\ (\A t \in Tasks : conn[t] # c) => saved[c] = <<>> /\ guc[c] = NoTenant

(* Nobody awaits a resolver that is not there, and only open sessions have *)
(* a connection.                                                           *)
StageInv ==
    \A t \in Tasks :
        /\ stage[t] = "resolving" => using[t] # NoResolver
        /\ conn[t] # NoConn => stage[t] = "open"

(* A session is bound to an engine some resolver has for its principal, or *)
(* it has no tenant; its transactions set the variable to nothing else,    *)
(* and go back to a tenant once it has set its own.                        *)
PoolInv ==
    /\ \A t \in Tasks :
          /\ stage[t] = "open" => TenantOf[principal[t]] \in TenantsOf(pool[t]) \cup {NoTenant}
          /\ conn[t] # NoConn => PoolOf[conn[t]] = pool[t]
          /\ conn[t] # NoConn /\ TenantOf[principal[t]] # NoTenant =>
                /\ guc[conn[t]] # NoTenant
                /\ \A i \in (base[t] + 2)..Len(saved[conn[t]]) : saved[conn[t]][i] # NoTenant
    /\ \A c \in Connections :
          /\ guc[c] \in TenantsOf(PoolOf[c]) \cup {NoTenant}
          /\ \A i \in 1..Len(saved[c]) : saved[c][i] \in TenantsOf(PoolOf[c]) \cup {NoTenant}

CoreInv == TypeOK /\ StageInv /\ StackInv /\ TransactionInv /\ FreeInv /\ TestsUndone
SInv == CoreInv /\ PoolInv
=============================================================================
