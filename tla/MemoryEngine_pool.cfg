CONSTANTS
    t1 = t1
    t2 = t2
    t3 = t3
    r1 = r1
    r2 = r2
    w1 = w1
    w2 = w2
    Token = {t2, t3}
    Request = {r2}
    Worker = {w1, w2}
    Capacity = 1
    Jobs <- MCJobsBatch
    Waits = {}
    Verdicts = {3}
    Expecting = {}
    Rejected = {t3}
    Callback = {}
    Impatient = {r2}
    Deletable = {t2, t3}
    Expirable = {t2}
    Stoppable = TRUE
SPECIFICATION Spec
SYMMETRY WorkerSymmetry
INVARIANTS
    ExactlyOnce
    StatsExact
    AcknowledgedWasSent
    UnfinishedIsInFlight
