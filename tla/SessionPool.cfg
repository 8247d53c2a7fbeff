CONSTANTS
    pA = pA
    pB = pB
    pN = pN
    tA = tA
    tB = tB
    c1 = c1
    c2 = c2
    c3 = c3
    c4 = c4
    db1 = db1
    db2 = db2
    db3 = db3
    Tasks = {t1, t2}
    Principals = {pA, pB, pN}
    Tenants = {tA, tB}
    NoTenant = NoTenant
    TenantOf <- MCTenantOf
    Connections = {c1, c2, c3, c4}
    NoConn = NoConn
    Pools = {db1, db2, db3}
    PoolOf <- MCPoolOf
    Resolvers <- MCResolvers
    NoResolver = NoResolver
    NoPool = NoPool
    Fixtures = {db2, db3}
    MaxDepth = 2
SPECIFICATION Spec
INVARIANTS SInv OwnTenant TestsUndone NoOtherTenant
PROPERTY NeverLeaks
