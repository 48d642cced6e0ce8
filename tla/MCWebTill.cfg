\* One tab whose page is opened twice; storage may fail at any time.
CONSTANTS
    p1 = p1
    Products = {p1}
    Price <- Prices
    MaxStock = 2
    Amounts = {0, 2}
    MaxQuantity = 1
    MaxTotal = 1
    MaxTender = 1
    MaxCommands = 2
    MaxVisits = 2
    MaxMounts = 2
    MaxQueue = 2
    StorageFails = TRUE
    NotANumber = NotANumber
SPECIFICATION FairSpec
INVARIANTS
    IInv
    StepTellsEffect
    UndecidedIsFinal
    DraftCatchesUp
PROPERTIES
    NothingHangs
CHECK_DEADLOCK FALSE
