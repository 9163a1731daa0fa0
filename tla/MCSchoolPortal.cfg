\* Two requests at a time, one exception or crash. Deadlock is checked.
SPECIFICATION Spec
CONSTANTS
    primary = primary
    secondary = secondary
    Handlers = {h1, h2}
    Levels <- TwoLevels
    Agendas <- MCAgendas
    PriceLists <- MCPriceLists
    Starts = {"NONE", "DRAFT", "ACTIVE"}
    MaxFiles = 4
    MaxPrices = 3
    MaxRequests = 3
    MaxFaults = 1
INVARIANTS
    TypeOK
    GalleryFilesExist
    LogoExistsUnlessStale
    RejectionHasReason
    PricesAreOneList
    LevelsAreTheLastSync
PROPERTIES
    ImplementsFileReferences
    StatusStepsAreLegal
SYMMETRY Symmetry
