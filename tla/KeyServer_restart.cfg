CONSTANTS
    b1 = b1
    m1 = m1
    g1 = g1
    x1 = x1
    bad = bad
    n1 = n1
    n2 = n2
    c1 = c1
    c2 = c2
    Nobody = Nobody
    NoHash = NoHash
    Node = {n1}
    Id = {b1, m1}
    Hash <- MCHash
    KindOf <- MCKind
    HashKey <- MCHashKey
    MaxFaults = 0
    Call = {c1}
    Home <- MCHomeOne
    BootList <- MCBootOne
    Op = {"generate"}
    UsesRedis = TRUE
SPECIFICATION Spec
INVARIANTS
    IssuedKeysSurvive
