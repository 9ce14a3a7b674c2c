CONSTANTS
    b1 = b1
    m1 = m1
    g1 = g1
    x1 = x1
    bad = bad
    n1 = n1
    n2 = n2
    c1 = c1
    c2 = c2
    Nobody = Nobody
    NoHash = NoHash
    Node = {n1, n2}
    Id = {b1, m1}
    Hash <- MCHash
    KindOf <- MCKind
    HashKey <- MCHashKey
    MaxFaults = 1
    Call = {c1, c2}
    Home <- MCHome
    BootList <- MCBootOne
    Op = {"generate", "revoke"}
    UsesRedis = TRUE
SPECIFICATION Spec
INVARIANTS
    KInv
    IssuedIsDurable
    RevocationIsDurable
