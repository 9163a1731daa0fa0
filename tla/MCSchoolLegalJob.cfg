\* The job, lost once, with two schools on its list: one submits and is looked up
\* meanwhile, the other is set ACTIVE again by the admin. Deadlock is checked.
SPECIFICATION FairSpec
CONSTANTS
    s1 = s1
    s2 = s2
    h1 = h1
    h2 = h2
    cron = cron
    good = good
    bad = bad
    none = none
    Schools <- TwoSchools
    Nifs <- TwoNifs
    NoNif = none
    Registry <- MCRegistry
    Handlers <- OneHandler
    Cron = cron
    DeadlineDays = 1
    ReminderDays = 1
    Operations <- JobOperations
    Public <- TwoSchools
    Decisions <- SomeDecisions
    NifsOf <- OneNifEach
    MaxTime = 3
    MaxFaults = 1
PROPERTIES
    SuspendedOnlyOverdue
    OverdueIsEnforced
