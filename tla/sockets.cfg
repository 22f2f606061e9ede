\* One user, one session of up to two pairs, two sockets, a restart; no symmetry, since liveness is checked.
CONSTANTS
    Users = {u1}
    Sessions = {s1}
    Requests = {r1, r2}
    Conns = {c1, c2}
    Nobody = Nobody
    Nothing = Nothing
    LoginLimit = 1
    MaxGeneration = 2
    MaxPairs = 3
    MaxRestarts = 1
    Operations = {"Register", "Refresh", "Logout", "DeleteAccount", "Connect"}
SPECIFICATION FairSpec
PROPERTIES SocketCloses
