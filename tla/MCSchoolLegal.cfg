\* Two requests at once ask everything of one school, and a second school submits:
\* no deadline passes yet, so the job only reminds. Deadlock is checked.
SPECIFICATION Spec
CONSTANTS
    s1 = s1
    s2 = s2
    h1 = h1
    h2 = h2
    cron = cron
    good = good
    bad = bad
    none = none
    Schools <- TwoSchools
    Nifs <- TwoNifs
    NoNif = none
    Registry <- MCRegistry
    Handlers <- TwoHandlers
    Cron = cron
    DeadlineDays = 1
    ReminderDays = 1
    Operations <- MCOperations
    Public <- OneSchool
    Decisions <- AllDecisions
    NifsOf <- MCNifsOf
    MaxTime = 2
    MaxFaults = 1
INVARIANTS
    TypeOK
    NifsAreUnique
    DeadlineNotExtended
PROPERTY
    VerifiedIsActiveAtAgt
