CONSTANTS
    t1 = t1
    t2 = t2
    r1 = r1
    r2 = r2
    w1 = w1
    w2 = w2
    n1 = n1
    n2 = n2
    Token = {t1}
    Request = {r1}
    Worker = {w1, w2}
    Node = {n1, n2}
    Home <- MCHome
    MaxFaults = 1
    Retries = FALSE
    Jobs <- MCJobsOne
    Waits = {r1}
    Verdicts = {3}
    Callback = {t1}
    Impatient = {r1}
    Removable = {t1}
    MaxStops = 1
    MaxCrashes = 1
SPECIFICATION Spec
INVARIANTS
    RunOnce
    AnswersAreFinal
    StartedIsFinished
PROPERTIES
    ImplementsLifecycle
