\* Three concurrent calls with every combination of inputs.  A behaviour ends
\* when every call has returned, so deadlock is not checked.
SPECIFICATION FairSpec
CHECK_DEADLOCK FALSE
CONSTANTS
    c1 = c1
    c2 = c2
    c3 = c3
    platform = platform
    school = school
    revenue1 = revenue1
    revenue2 = revenue2
    receipt1 = receipt1
    Calls <- MCCalls
    Wallets <- MCWallets
    References <- MCReferences
    NoEntry = NoEntry
    Inputs <- MCInputs
INVARIANTS
    TypeOK
    OnePosterPerReference
    NeverOverdrawn
    BalanceBackedByCredits
    ExactUnlessContended
PROPERTIES
    EveryCallEnds
    ImplementsIdempotentLedger
