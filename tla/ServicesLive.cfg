SPECIFICATION LiveSpec
CONSTANTS
    Session = {x1, x2}
    Remover = {r1}
    Sender = {m1}
    MaxSlots = 2
    Nobody = Nobody
    Fingerprint = {"a", "b"}
    Hook = {h1, h2}
    Payload <- MCPayload
    FireOnResolved = FALSE
    Named = {"a"}
    Window = 2
    MaxStartFaults = 1
    MaxRestarts = 1
    MaxVersions = 1
PROPERTIES
    ExpiredEnds
    AlertRuns
CHECK_DEADLOCK FALSE
