SPECIFICATION Spec
CONSTANTS
    N = 3
    GroupName = {g}
    Flows <- MCFlows
    None = None
INVARIANT CancelHonoured
CHECK_DEADLOCK FALSE
