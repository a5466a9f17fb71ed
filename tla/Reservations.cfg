SPECIFICATION Spec
CONSTANTS
    p1 = p1
    p2 = p2
    o1 = o1
    hold = hold
    free = free
    sale = sale
    cron = cron
    None = None
    Lines = {o1}
    Holds = {hold}
    Frees = {free}
    Issues = {sale}
    Procs = {p1, p2}
    Cron = cron
    Openings = {0, 1, 3}
    MaxQty = 2
    MaxRows = 2
    MaxKills = 1
CONSTRAINT Bound
CHECK_DEADLOCK FALSE
INVARIANTS
    TypeOK
    BucketIsReserved
    IssuedWithinReserved
    LineReservedOnce
    ShortOnlyBySales
PROPERTIES
    DueIsReleased
