CONSTANTS
    t1 = t1
    t2 = t2
    t3 = t3
    r1 = r1
    r2 = r2
    w1 = w1
    w2 = w2
    Token = {t1}
    Request = {r1}
    Worker = {w1, w2}
    Capacity = 1
    Jobs <- MCJobsOne
    Waits = {r1}
    Verdicts = {3}
    Expecting = {t1}
    Rejected = {}
    Callback = {t1}
    Impatient = {r1}
    Deletable = {t1}
    Expirable = {}
    Stoppable = TRUE
SPECIFICATION FairSpec
INVARIANTS
    IInv
    AnswersAreFinal
    StartedIsFinished
    CallbackSeesResult
PROPERTIES
    ImplementsLifecycle
    EveryJobFinishes
    WaiterAnswered
    StopTerminates
