CONSTANTS
    Messages = {1, 2, 3}
    Threads = 2
    Threshold = 2
    Cooldown = 2
    DeliveryTimeout = 1
    PollTimeout = 2
    QueueLimit = 2
    Unset = Unset
    Screens = {tab}
    QueueSize = 2
    MaxRuns = 2
    Callers = {ann}
    Limit = 2
    Window = 2
    Loads <- MCLoads
    None = None
SPECIFICATION Spec
INVARIANTS
    TypeOK
    LoneReportCounted
    RateRespected
    InjectedOnBoard
PROPERTIES
    HealthFollowsBroker
    ScreenInformed
CHECK_DEADLOCK FALSE
