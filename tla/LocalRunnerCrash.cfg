SPECIFICATION FairSpec
CONSTANTS
    Starter = {s1}
    Approver = {a1}
    Canceller = {}
    N = 3
    Gate = {2}
    Label <- MCLabel
    Name <- MCName
    Key <- MCKey
    Cond <- MCCond
    AutoApprove = FALSE
    KnownIds = TRUE
    MaxCrashes = 1
    MaxFaults = 0
    None = None
PROPERTY ResetAfterCrash
CHECK_DEADLOCK FALSE
