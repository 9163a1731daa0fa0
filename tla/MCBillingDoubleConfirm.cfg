\* Two confirmations of one payment: a webhook delivered twice, or a webhook and
\* the confirm endpoint.
SPECIFICATION Spec
CHECK_DEADLOCK FALSE
CONSTANTS
    h1 = h1
    h2 = h2
    cron = cron
    FREE = FREE
    PRESENCE = PRESENCE
    GROWTH = GROWTH
    sim = sim
    exp = exp
    evt = evt
    none = none
    Plans <- TwoPlans
    FreePlan = FREE
    Period <- MCPeriod
    GrantPeriod = 1
    ExternalIds <- MCExternalIds
    NoId = none
    Handlers <- TwoHandlers
    Cron = cron
    Operations <- ConfirmTwiceOperations
    SwitchedPlans = {}
    AdminTargets = {"ACTIVE", "SUSPENDED"}
    GivenIds = {none}
    GatewayId = sim
    DefaultId = exp
    Simulated = FALSE
    Serial = FALSE
    MaxSubs = 1
    MaxPayments = 1
    MaxTime = 2
    MaxFaults = 0
SYMMETRY HandlerSymmetry
INVARIANT
    ServiceNeverExceedsPayments
