SPECIFICATION FairPagesSpec
CONSTANTS
    u1 = u1
    u2 = u2
    c1 = c1
    Users = {u1, u2}
    Calls = {c1}
    Requests <- MCRequests
    None = None
    Slots = 64
    Callers = {u1}
    Erasers = {u2}
    Removed = {u2}
PROPERTIES SettledStays EndIsHeard
CHECK_DEADLOCK FALSE
