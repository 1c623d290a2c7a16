SPECIFICATION ServicesSpec
CONSTANTS
    Agent = {a1, a2}
    Asked = {{}, {"cred", "mcp", "skills"}}
    MaxGatewayFaults = 2
    Session = {s1, s2}
    Remover = {r1}
    Sender = {m1, m2}
    MaxSlots = 1
    Nobody = Nobody
    Message = {c1, c2, c3}
    Streamed = {c1}
    Transcript <- MCTranscript
    MaxContext = 1
    MaxChatFaults = 1
    NoTurn = NoTurn
    Fingerprint = {"a", "b"}
    Hook = {h1, h2}
    Payload <- MCPayload
    FireOnResolved = FALSE
    Named = {"a"}
    Window = 2
    MaxStartFaults = 1
    MaxRestarts = 1
    MaxVersions = 1
    Schedule = {sch}
    Policy = {"skip", "buffer_one", "allow_all", "other"}
    ClientId <- MCClientId
    MaxRuns = 3
    MaxIds = 2
    Key = {k1, k2}
    Unit = 3
    Rate = 2
    Burst = 1
    Interval = 2
    Throttle = 6
    StoreFails = TRUE
    Submitted <- MCSubmitted
    Requested <- MCRequested
    None = None
INVARIANTS
    ServicesTypeOK
    FailureHasCause
    NothingLeft
    MessagesKept
    StateHeld
    SlotDrift
    TurnsKept
    OneLateTurn
    ContextFaithful
    OncePerWindow
    OpenRunsApart
    RetryHonoured
    AuditSpaced
    ExecutorsAgree
    AcceptedNormalizes
    BoundaryKept
PROPERTY BucketRefines
CHECK_DEADLOCK FALSE
