SPECIFICATION FairSpec
CONSTANTS
    Docs = {d1}
    WaitDocs = {d1}
    Posters = {p1}
    Reversers = {}
    Crons = {c1}
    Drains = {}
    NoDoc = NoDoc
    NoRow = NoRow
    MaxDeliveries = 2
    MaxRepairs = 2
    MaxFaults = 1
PROPERTIES
    EventsSettle
    RepairsFinish
