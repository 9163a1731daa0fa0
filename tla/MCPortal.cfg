\* Two requests at a time, one exception or crash. Deadlock is checked.
SPECIFICATION MCSpec
CONSTANTS
    Handlers = {h1, h2}
    Agendas <- MCAgendas
    MaxRequests = 3
    MaxFaults = 1
    Emails = {e1, e2}
    MaxSeats = 1
    MaxAttempts = 1
    MaxCodes = 2
    MaxApplications = 2
    MaxVisits = 2
    Features = {f1, f2}
    PageSize = 2
    MaxRows = 5
    Schools = {s1, s2}
    Authors = {a1}
    Limit = 1
    FlexibleBudget = 150
    Offers <- MCOffers
    Names <- MCNames
    Messages <- MCMessages
    Readings <- MCReadings
    Patches <- MCPatches
    FirstNeeds <- MCFirstNeeds
INVARIANTS
    TypeOK
    LimitsHold
    RowsAreAsLastAsked
    DecisionsFormOneTrail
    PagesMissNothing
    ResultsFitNeeds
SYMMETRY Symmetry
