SPECIFICATION Spec
CONSTANTS
    Starter = {s1}
    Approver = {a1}
    Canceller = {c1}
    N = 3
    Gate = {2}
    Label <- MCLabel
    Name <- MCName
    Key <- MCKey
    Cond <- MCCond
    AutoApprove = FALSE
    KnownIds = TRUE
    MaxCrashes = 0
    MaxFaults = 0
    None = None
PROPERTY CancelledIsFinal
CHECK_DEADLOCK FALSE
