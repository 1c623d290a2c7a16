SPECIFICATION Spec
CONSTANTS
    Starter = {s1}
    Approver = {a1, a2}
    Canceller = {c1}
    N = 3
    Gate = {2}
    Label <- MCLabel
    Name <- MCName
    Key <- MCKey
    Cond <- MCCond
    AutoApprove = FALSE
    KnownIds = TRUE
    MaxCrashes = 1
    MaxFaults = 1
    None = None
SYMMETRY ApproverSymmetry
INVARIANTS
    TypeOK
    ApproveExclusive
    SingleExecutor
    AtMostOnce
    GatesFirst
    PausedIsQuiet
    CompletedAccounted
PROPERTY KeepsPromise
CHECK_DEADLOCK FALSE
