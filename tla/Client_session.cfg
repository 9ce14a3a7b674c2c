CONSTANTS
    s1 = s1
    s2 = s2
    A = A
    B = B
    m = m
    g = g
    e = e
    x = x
    y = y
    none = none
    Shell = {s1, s2}
    Url = {A, B}
    DefaultUrl = A
    Home = A
    Key = {m, g, e, x, y}
    KindOf <- MCKind
    Issued = {m, g, e, y}
    Env <- MCEnv
    Commands <- MCAll
    MaxCommands = 3
CHECK_DEADLOCK FALSE
SPECIFICATION FairSpec
INVARIANTS
    CInv
    FileIsCoherent
    LogoutSticks
PROPERTIES
    KeepsTheRest
    CommandsEnd
