CONSTANTS
    t1 = t1
    t2 = t2
    r1 = r1
    r2 = r2
    w1 = w1
    w2 = w2
    n1 = n1
    n2 = n2
    Token = {t1, t2}
    Request = {r2}
    Worker = {w1, w2}
    Node = {n1, n2}
    Home <- MCHome
    MaxFaults = 2
    Retries = TRUE
    Jobs <- MCJobsBatch
    Waits = {}
    Verdicts = {3}
    Callback = {}
    Impatient = {r2}
    Removable = {}
    MaxStops = 0
    MaxCrashes = 1
SPECIFICATION Spec
INVARIANTS
    RInv
    AcknowledgedWasSent
    UnfinishedIsInFlight
