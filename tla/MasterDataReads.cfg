CONSTANTS
    tA = tA
    i1 = i1
    i2 = i2
    i3 = i3
    nature = nature
    code = code
    weight = weight
    v1 = v1
    v2 = v2
    v3 = v3
    Spokes = {s1}
    Tables = {nature}
    Columns = {code, weight}
    Versions = {v1, v2, v3}
    Mapped <- MCMapped
    Tenants = {tA, tB, System}
    System = System
    Ids = {i1, i2, i3}
    TenantOf <- MCTenantOf
    MaxCode = 2
    Limit = 2
    NoRow = NoRow
SPECIFICATION Spec
INVARIANT ReadsInv
PROPERTIES TenantOverrides ListAgreesWithGet CheckedReadsWork
