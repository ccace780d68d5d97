SPECIFICATION AccSpec
CONSTANTS
    n1 = n1
    n2 = n2
    p1 = p1
    p2 = p2
    long = long
    UserIDs = {i1, i2}
    Emails = {e1}
    Names = {n1, n2}
    Passwords = {p1, p2, long}
    Storable = {p1, p2}
    SignReqs = {s1, s2}
    RowReqs = {w1}
SYMMETRY AccountSymmetry
INVARIANTS
    AccTypeOK
    OneAccountPerEmail
PROPERTIES
    ImplementsPlan
CHECK_DEADLOCK FALSE
