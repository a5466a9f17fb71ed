SPECIFICATION Spec
CONSTANTS
    l1 = l1
    l2 = l2
    s1 = s1
    s2 = s2
    s3 = s3
    r1 = r1
    p1 = p1
    p2 = p2
    None = None
    Lists = {l1, l2}
    Sales = {s1, s2}
    Names <- NamesOf
    Refs = {r1}
    Procs = {p1, p2}
    MaxLost = 1
CHECK_DEADLOCK FALSE
SYMMETRY Alike
INVARIANTS
    IssuedOnce
