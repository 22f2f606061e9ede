SPECIFICATION ContactSpec
CONSTANTS
    Users = {u1, u2, u3}
    Convs = {c1, c2}
    Keys = {1, 2}
    Requests = {r1, r2}
    None = none
    MaxPublications = 2
    Owners = {u1}
    Peers = {u2, u3}
    Few = 1
    Full = 2
    MaxStarts = 2
    MaxBlocked = 1
INVARIANTS OneChat HandedOnce KeysCanBeOpened
PROPERTIES BlockedGetsNothing RevokedServesNothing
SYMMETRY Symmetry
CHECK_DEADLOCK FALSE
