\* Storage never fails and the page is never closed with writes pending.
CONSTANTS
    p1 = p1
    Products = {p1}
    Price <- Prices
    MaxStock = 2
    Amounts = {0, 2}
    MaxQuantity = 1
    MaxTotal = 1
    MaxTender = 1
    MaxCommands = 2
    MaxVisits = 2
    MaxMounts = 2
    MaxQueue = 2
    StorageFails = FALSE
    NotANumber = NotANumber
SPECIFICATION Spec
INVARIANTS
    PaidCartStaysGone
CHECK_DEADLOCK FALSE
