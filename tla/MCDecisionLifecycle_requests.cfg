CONSTANTS
    Threads = {t1, t2}
    Decisions = {d1, d2}
    Categories = {c1}
    CatOf <- OneCategory
    ShadowModes = {"off", "shared", "separate"}
    Faults = {"seal", "evidence", "learn", "extinction", "proposal", "link", "snapshot", "shadow", "crash"}
    MaxCalls <- CallsByMode
    MaxCrashes = 1
    MaxReceipts = 1
    Nobody = nobody
SPECIFICATION Spec
INVARIANTS
    EvidenceFirst
    CompleteIsDurable
    ReceiptsAreEarned
PROPERTIES
    ExtinctionIsExact
SYMMETRY Interchangeable
CHECK_DEADLOCK FALSE
