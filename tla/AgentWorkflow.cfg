SPECIFICATION FairSpec
CONSTANTS
    N = 3
    GroupName = {g}
    Flows <- MCFlows
    None = None
INVARIANTS
    TypeOK
    UnitsInOrder
    RefsReady
    CompletedAccounted
    AttemptBound
PROPERTIES
    KeepsPromise
    Terminates
CHECK_DEADLOCK FALSE
