\* Two users, two sessions of up to two pairs, two requests at once.
CONSTANTS
    Users = {u1, u2}
    Sessions = {s1, s2}
    Requests = {r1, r2}
    Conns = {}
    Nobody = Nobody
    Nothing = Nothing
    LoginLimit = 1
    MaxGeneration = 2
    MaxPairs = 3
    MaxRestarts = 0
    Operations = {"Register", "Login", "Refresh", "RevokeOthers", "RevokeID", "DeleteAccount"}
SPECIFICATION Spec
INVARIANTS PassedAreOver FailuresBounded SessionsHaveAccounts
PROPERTIES SessionStaysOver OnlyOwnSessions
SYMMETRY Symmetry
VIEW Seen
