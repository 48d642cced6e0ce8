\* Three requests at the purchasing desk, under a strict policy.
CONSTANTS
    r1 = r1  r2 = r2  r3 = r3
    o1 = o1  o2 = o2
    s1 = s1  s2 = s2
    c1 = c1  c2 = c2
    k1 = k1  k2 = k2
    halal = halal
    Requests = {r1, r2, r3}
    Products = {1, 2}
    Suppliers = {s1, s2}
    Certificates = {c1, c2}
    Kinds = {halal}
    Keys = {k1, k2}
    Commands <- DeskCommands
    InitialOrders <- DeskOrders
    InitialSuppliers <- OneActive
    InitialCertificates <- OneCertificate
    InitialPolicy <- Strict
    InitialStock <- NoStock
    LastDay = 2
    MaxTransactionAmount = 20
    MaxLineItemQuantity = 5
    NoRow = NoRow
    NoCertificate = NoCertificate
SPECIFICATION Spec
SYMMETRY RequestSymmetry
INVARIANTS
    IInv
    WithdrawnIsNotAwaited
PROPERTIES
    DecisionIsCurrent
    KeepsPromise
CHECK_DEADLOCK FALSE
