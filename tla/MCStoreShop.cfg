\* Three requests in each other's way: sales, retries under one key, voids,
\* adjustments and catalog edits.
CONSTANTS
    r1 = r1  r2 = r2  r3 = r3
    p1 = p1  p2 = p2  p3 = p3
    k1 = k1  k2 = k2
    Requests = {r1, r2, r3}
    Products = {p1, p2, p3}
    Keys = {k1, k2}
    Commands <- ShopCommands
    InitialCatalog <- TwoProducts
    InitialStock <- TwoOfEach
    MaxTransactionAmount = 20
    MaxTenderAmount = 40
    MaxMoney = 30
    NoRow = NoRow
    NoTender = NoTender
SPECIFICATION Spec
SYMMETRY RequestSymmetry
INVARIANTS
    IInv
    BooksInv
    StockIsSumOfMovements
    TrailMatchesDocuments
    KeySoldOnce
    LockedBalanceIsCurrent
PROPERTIES
    KeepsPromise
    SaleAtCurrentTerms
CHECK_DEADLOCK FALSE
