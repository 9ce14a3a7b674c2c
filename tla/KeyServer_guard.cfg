CONSTANTS
    b1 = b1
    m1 = m1
    g1 = g1
    x1 = x1
    bad = bad
    n1 = n1
    n2 = n2
    c1 = c1
    c2 = c2
    Nobody = Nobody
    NoHash = NoHash
    Node = {n1}
    Id = {b1, m1, x1, g1, bad}
    Hash <- MCHash
    KindOf <- MCKind
    HashKey <- MCHashKey
    MaxFaults = 0
    Call = {c1, c2}
    Home <- MCHomeOne
    BootList <- MCBootMetrics
    Op = {"api", "metrics", "list", "capabilities", "generate", "revoke"}
    UsesRedis = FALSE
SPECIFICATION Spec
SYMMETRY CallSymmetry
INVARIANTS
    CapabilitiesAreExact
    MasterRemains
    RevokedIsRefused
