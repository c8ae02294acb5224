CONSTANTS
    Threads = {t1, t2}
    Decisions = {d1, d2}
    Categories = {c1}
    CatOf <- OneCategory
    ShadowModes = {"separate"}
    Faults = {"learn", "link", "shadow"}
    MaxCalls <- CallsByMode
    MaxCrashes = 1
    MaxReceipts = 1
    Nobody = nobody
SPECIFICATION Spec
INVARIANTS
    ReportedLinksExist
CHECK_DEADLOCK FALSE
