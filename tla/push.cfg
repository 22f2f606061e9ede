SPECIFICATION Spec
CONSTANTS
    u1 = u1
    u2 = u2
    t1 = t1
    t2 = t2
    t3 = t3
    r1 = r1
    r2 = r2
    Users = {u1, u2}
    Tokens = {t1, t2, t3}
    Requests = {r1, r2}
    None = none
    MaxDevices = 1
    Changed = {u2}
    Operations <- MCOperations
INVARIANT LimitPassedByOverlapOnly
PROPERTIES QuietStaysQuiet WithdrawnGetsNothing
SYMMETRY Symmetry
CHECK_DEADLOCK FALSE
