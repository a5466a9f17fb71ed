SPECIFICATION Spec
CONSTANTS
    Docs = {d1, d2}
    author = author
    manager = manager
    Tabs = {author, manager}
    Can <- MCCan
    Vouchers = {v1}
    Workers = {w1, w2}
    None = None
    MaxGen = 2
    MaxTries = 2
    MaxFaults = 1
    MaxLost = 1
CONSTRAINT Bound
SYMMETRY Symmetry
INVARIANTS
    TypeOK
    OneDocumentPerEntry
    ToldPostedMovedStock
    StatusMatchesStock
    ApprovalCoversLines
    VoucherMovesOnce
PROPERTY OnlyStaleRefused
CHECK_DEADLOCK FALSE
