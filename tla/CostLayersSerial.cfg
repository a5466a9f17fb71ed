SPECIFICATION Spec
CONSTANTS
    Lines = {1, 2, 3}
    Procs = {p1}
    Methods = {"FIFO", "LIFO"}
    Drafts <- AnyOrder
    Charges = {24}
    Openings = {0, 1}
    OpeningCost = 20
    MaxLanded = 1
    MaxReplays = 2
    MaxCrashes = 1
INVARIANTS
    TypeOK
    QuantityConserved
    ValueAccounted
    LineAccounted
    TrailMatchesLayers
    RevisionsReachBooks
PROPERTIES
    ReplayStable
    NoPriceFromTheFuture
CHECK_DEADLOCK FALSE
