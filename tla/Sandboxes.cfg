SPECIFICATION SandboxesSpec
CONSTANTS
    Attempt = {p1, p2, p3, p4}
    MaxPods = 2
    Threshold = 2
    PerSecond = 2
    SpawnDeadline = 2
    RunTimeout = 3
    FetchTimeout = 2
    SaveTimeout = 2
    CancelGrace = 2
    DestroyGrace = 2
    MinLifetime = 0
    ExpirySkew = 2
    Offset <- MCOffset
    MaxLag = 2
    MaxTime = 26
SYMMETRY AttemptSymmetry
INVARIANTS
    DriftBounded
    SandboxGone
    TemporalCapRespected
    LabelCoversUse
    NotReapedInUse
CHECK_DEADLOCK FALSE
