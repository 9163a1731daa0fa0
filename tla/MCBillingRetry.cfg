\* A payment that is retried after its plan was switched off.
SPECIFICATION Spec
CHECK_DEADLOCK FALSE
CONSTANTS
    h1 = h1
    h2 = h2
    cron = cron
    FREE = FREE
    PRESENCE = PRESENCE
    GROWTH = GROWTH
    sim = sim
    exp = exp
    evt = evt
    none = none
    Plans <- TwoPlans
    FreePlan = FREE
    Period <- MCPeriod
    GrantPeriod = 1
    ExternalIds <- MCExternalIds
    NoId = none
    Handlers <- OneHandler
    Cron = cron
    Operations <- RetryOperations
    SwitchedPlans = {PRESENCE}
    AdminTargets = {"ACTIVE", "SUSPENDED"}
    GivenIds = {none}
    GatewayId = sim
    DefaultId = exp
    Simulated = FALSE
    Serial = TRUE
    MaxSubs = 2
    MaxPayments = 2
    MaxTime = 2
    MaxFaults = 0
INVARIANT
    AlreadyProcessedMeansApplied
