CONSTANTS
    tA = tA
    tB = tB
    coA = coA
    coB = coB
    x1 = x1
    x2 = x2
    x3 = x3
    k1 = k1
    k2 = k2
    Sessions = {s1}
    Tenants = {tA, tB}
    Companies = {coA, coB}
    OwnerOf <- MCOwnerOf
    Certs = {x1, x2, x3}
    NoRow = NoRow
    MaxIssued = 2
    Keys = {k1, k2}
    NoKey = NoKey
    Legacy = {tB}
    KeepOnCommit = FALSE
    Nothing = Nothing
    KeyMissing = KeyMissing
    Undecipherable = Undecipherable
SYMMETRY Symmetric
SPECIFICATION Spec
PROPERTY ReadIsCurrent
