SPECIFICATION Spec
CONSTANTS
    Lines = {1, 2, 3}
    Procs = {p1}
    Methods = {"FIFO", "LIFO"}
    Drafts <- AnyOrder
    Charges = {24}
    Openings = {0, 1}
    OpeningCost = 20
    MaxLanded = 1
    MaxReplays = 1
    MaxCrashes = 0
INVARIANT RevaluationSurvives
CHECK_DEADLOCK FALSE
