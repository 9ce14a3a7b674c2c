CONSTANTS
    w1 = w1
    w2 = w2
    NoArchive = NoArchive
    Worker = {w1, w2}
    Configured = "auto"
    Submissions <- MCSubmissions
    Exits = {0, 1}
    Signals = {11}
    BoxIds = 2
    MaxZipEntries = 2
    MaxZipSize = 2
    MaxBoxes = 3
SYMMETRY Sym
SPECIFICATION Spec
INVARIANTS
    XInv
    SandboxesOwned
    UnpackedWhole
    VerdictIsEarned
CHECK_DEADLOCK FALSE
