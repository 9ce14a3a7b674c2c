CONSTANTS
    a = a
    proxy = proxy
    none = none
    r1 = r1
    r2 = r2
    Request = {r1, r2}
    Address = {a, proxy}
    TrustedProxy = {proxy}
    Origin <- MCOrigin
    Limit = 2
    Window = 1
    MaxTime = 4
    MaxRequests = 7
CHECK_DEADLOCK FALSE
SPECIFICATION Spec
SYMMETRY RequestSymmetry
INVARIANTS
    BurstIsBounded
    RefusedForCause
