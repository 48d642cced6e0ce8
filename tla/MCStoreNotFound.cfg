\* A checkout against an adjustment or a void of the same product.
CONSTANTS
    r1 = r1  r2 = r2  r3 = r3
    p1 = p1  p2 = p2  p3 = p3
    k1 = k1  k2 = k2
    Requests = {r1, r2, r3}
    Products = {p1}
    Keys = {k1}
    Commands <- CounterCommands
    InitialCatalog <- OneProduct
    InitialStock <- TwoOfEach
    MaxTransactionAmount = 20
    MaxTenderAmount = 40
    MaxMoney = 30
    NoRow = NoRow
    NoTender = NoTender
SPECIFICATION Spec
PROPERTIES
    NotFoundMeansMissing
CHECK_DEADLOCK FALSE
