SPECIFICATION Spec
CONSTANTS
    Starter = {s1, s2}
    Approver = {a1, a2}
    Canceller = {}
    N = 3
    Gate = {2}
    Label <- MCLabel
    Name <- MCName
    Key <- MCKey
    Cond <- MCCond
    AutoApprove = FALSE
    KnownIds = TRUE
    MaxCrashes = 0
    MaxFaults = 0
    None = None
INVARIANT ApproveExclusive
CHECK_DEADLOCK FALSE
