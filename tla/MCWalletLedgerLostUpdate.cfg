\* The inputs of confirm() alone: two payments credit the platform wallet.
SPECIFICATION Spec
CHECK_DEADLOCK FALSE
CONSTANTS
    c1 = c1
    c2 = c2
    c3 = c3
    platform = platform
    school = school
    revenue1 = revenue1
    revenue2 = revenue2
    receipt1 = receipt1
    Calls <- MCCalls
    Wallets <- MCWallets
    References <- MCReferences
    NoEntry = NoEntry
    Inputs <- ConfirmInputs
SYMMETRY CallSymmetry
INVARIANT
    BalanceIsSumOfEntries
