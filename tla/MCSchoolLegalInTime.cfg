\* One school, one request at a time, no faults: the message of the reminder does
\* not hold of a NIF that was submitted in time and rejected later.
SPECIFICATION Spec
CONSTANTS
    s1 = s1
    s2 = s2
    h1 = h1
    h2 = h2
    cron = cron
    good = good
    bad = bad
    none = none
    Schools <- OneSchool
    Nifs <- TwoNifs
    NoNif = none
    Registry <- MCRegistry
    Handlers <- OneHandler
    Cron = cron
    DeadlineDays = 1
    ReminderDays = 1
    Operations <- OneByOneOperations
    Public <- OneSchool
    Decisions <- NoDecisions
    NifsOf <- OneNif
    MaxTime = 3
    MaxFaults = 0
PROPERTY
    SubmittedInTimeNotSuspended
