SPECIFICATION FairSpec
CONSTANTS
    r1 = r1
    r2 = r2
    Listed = {r1}
    NoRow = NoRow
    Rows = {r1, r2}
    MaxLevel = 1
    MaxCalls = 2
    MaxOpenings = 2
    MaxElsewhere = 1
    MaxFetches = 2
INVARIANTS
    IInv
    CountReplacesWhatWasSeen
    OncePerConfirmation
    
    ContentIsGranted
PROPERTIES
    NobodyIsLeftWaiting
CHECK_DEADLOCK FALSE
