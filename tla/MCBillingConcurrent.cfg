\* Two requests and the job at the same time, exceptions; the simulated
\* gateway.  The bounds on ids and time end a behaviour: no deadlock check.
SPECIFICATION FairSpec
CHECK_DEADLOCK FALSE
CONSTANTS
    h1 = h1
    h2 = h2
    cron = cron
    FREE = FREE
    PRESENCE = PRESENCE
    GROWTH = GROWTH
    sim = sim
    exp = exp
    evt = evt
    none = none
    Plans <- TwoPlans
    FreePlan = FREE
    Period <- MCPeriod
    GrantPeriod = 1
    ExternalIds <- MCExternalIds
    NoId = none
    Handlers <- TwoHandlers
    Cron = cron
    Operations <- ConcurrentOperations
    SwitchedPlans = {}
    AdminTargets = {}
    GivenIds = {none}
    GatewayId = sim
    DefaultId = exp
    Simulated = TRUE
    Serial = FALSE
    MaxSubs = 1
    MaxPayments = 1
    MaxTime = 2
    MaxFaults = 1
INVARIANTS
    TypeOK
    PaidServiceIsRecorded
    RecordedIsNotPending
PROPERTIES
    DueExpires
