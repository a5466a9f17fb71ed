SPECIFICATION Spec
CONSTANTS
    a = a
    b = b
    a1 = a1
    a2 = a2
    b1 = b1
    Companies = {a, b}
    Years = {a1, a2, b1}
    YearOf <- MCYearOf
    Current <- MCCurrent
    CanRead = {a, b}
    CanWrite = {a}
    Before <- MCBefore
    Absent = Absent
    Unreadable = Unreadable
    None = None
    Links <- MCLinks
    MaxVisits = 3
    MaxFaults = 2
CONSTRAINT Bound
INVARIANTS
    TypeOK
    LinkNeverSwapped
    ScopeOfOneCompany
    ScreenShowsItsScope
    LoadingHasCause
    FormIsAllowed
    SwitchNotUndone
CHECK_DEADLOCK FALSE
