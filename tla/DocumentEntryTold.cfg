SPECIFICATION Spec
CONSTANTS
    Docs = {d1}
    author = author
    manager = manager
    Tabs = {author, manager}
    Can <- MCCan
    Vouchers = {v1}
    Workers = {w1}
    None = None
    MaxGen = 2
    MaxTries = 2
    MaxFaults = 0
    MaxLost = 0
INVARIANT NotPostedMovedNothing
CHECK_DEADLOCK FALSE
