SPECIFICATION Spec
CONSTANTS
    None = None
    Threads = {"t1", "t2"}
    Viewers = {"t2"}
    GateCategories = {"c1"}
    Confidences = {95}
    Thresholds = {99}
    Minimums = {0, 1}
    RollingWindow = 1
    NoveltyWindow = 1
    MaxEvents = 1
    MaxRows = 2
    GateCalls = 2
    Scores = {"s1", "s2"}
    PolicyCategories = {"c1"}
    PolicyThreshold <- P95
    Clients = {"t1", "t2"}
    Classes = {"c1", "c2"}
    Cells = {"x1", "x2"}
    Runs = {"r1", "r2"}
    Base = "base"
    MaxStage = 1
    AuthorityCalls = 3
    MaxUpdates = 2
    Operators = {"o1", "o2"}
    Kinds = {"k1"}
    MaxMoves = 3
    MaxTensor = 1
    MaxHistory = 2
    MaxAllocations = 4
    Environments <- Deployments
    MaxStarts = 2
    Writers = {"w1", "w2"}
    Nodes = {"n1", "n2"}
    Edges <- Pairs
    Links = {"l1"}
    LinkTo <- Linked
    Known = {"l1"}
    SeedingRuns = 3
    Events <- Phases
    Format = {"e1"}
    MinPending = 1
    PreseedRuns = 3
    MaxLost = 2
    Ids = {"a"}
    Purchases = {"p1", "p2", "p3"}
    SupplierOf <- Seller
    InvoiceOf <- Bill
    Place <- Ordinal
    Master <- MasterData
    Computed = 2
    MinSample = 2
    Trailing = 2
    Reliable = 2
    TrendPoints = 2
    MaxVerdicts = 2
    MaxStudies = 1
    MaxRestarts = 1
INVARIANTS TypeOK OversightHolds WritesAreReviewed SeedingConverges PlantedOnce SuppliersAreTrue AnswersAreSound
PROPERTIES   BaselinesAreKept BudgetIsDurable
CHECK_DEADLOCK FALSE
