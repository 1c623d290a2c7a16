SPECIFICATION FairSpec
CONSTANTS
    Starter = {s1}
    Approver = {a1}
    Canceller = {c1, c2}
    N = 3
    Gate = {2}
    Label <- MCLabel
    Name <- MCName
    Key <- MCKey
    Cond <- MCCond
    AutoApprove = FALSE
    KnownIds = TRUE
    MaxCrashes = 1
    MaxFaults = 1
    None = None
PROPERTY Settles
CHECK_DEADLOCK FALSE
