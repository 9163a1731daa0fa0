\* One request at a time, no failure; the paid plan stays active, FREE may be
\* switched off.  The bounds on ids and time end a behaviour, so deadlock is not
\* checked.
SPECIFICATION FairSpec
CHECK_DEADLOCK FALSE
CONSTANTS
    h1 = h1
    h2 = h2
    cron = cron
    FREE = FREE
    PRESENCE = PRESENCE
    GROWTH = GROWTH
    sim = sim
    exp = exp
    evt = evt
    none = none
    Plans <- TwoPlans
    FreePlan = FREE
    Period <- MCPeriod
    GrantPeriod = 1
    ExternalIds <- MCExternalIds
    NoId = none
    Handlers <- OneHandler
    Cron = cron
    Operations <- SerialOperations
    SwitchedPlans = {FREE}
    AdminTargets = {"ACTIVE", "SUSPENDED"}
    GivenIds = {none}
    GatewayId = sim
    DefaultId = exp
    Simulated = FALSE
    Serial = TRUE
    MaxSubs = 2
    MaxPayments = 2
    MaxTime = 2
    MaxFaults = 0
INVARIANTS
    AtMostOneValid
    NotifiedIsActive
    ServiceNeverExceedsPayments
    AlreadyProcessedMeansApplied
PROPERTIES
    NoPaidDayLost
    SuspensionStands
    SchoolExpiresOnlyUnserved
    RecordedIsApplied
    ExpiryReachesTheSchool
