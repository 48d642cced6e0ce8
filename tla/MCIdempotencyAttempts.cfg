\* Two attempts of each request under one key.
CONSTANTS
    a1 = a1  a2 = a2  a3 = a3  a4 = a4
    Attempts = {a1, a2, a3, a4}
    Payloads = {"count", "sale"}
    Payload <- TwoOfEach
    Handler <- ByRoute
    NoRecord = NoRecord
    NoEntry = NoEntry
    NoEffect = NoEffect
SPECIFICATION Spec
SYMMETRY AttemptSymmetry
INVARIANTS
    IInv
    SuccessIsTruthful
    OnceUnlessDisturbed
CHECK_DEADLOCK FALSE
