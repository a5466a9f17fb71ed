SPECIFICATION Spec
CONSTANTS
    Docs = {d1}
    WaitDocs = {d1}
    Posters = {p1, p2}
    Reversers = {u1}
    Crons = {c1}
    Drains = {x1}
    NoDoc = NoDoc
    NoRow = NoRow
    MaxDeliveries = 2
    MaxRepairs = 2
    MaxFaults = 1
CONSTRAINT Bound
SYMMETRY Symmetry
INVARIANTS
    TypeOK
    DurableRecord
    ToldPostedHasJournal
    ToldUndoneHasNoStock
    UndoReachesBooks
PROPERTY KeepsPromise
