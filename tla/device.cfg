\* Two calls that overlap, an app that may be killed.
CONSTANTS
    t1 = t1
    t2 = t2
    s1 = s1
    s2 = s2
    None = None
    Tasks = {t1, t2}
    Sessions = {s1, s2}
    MaxGeneration = 3
    Operations = {"Login", "Logout", "Restore", "Call", "DeleteAccount", "Refresh"}
    MayKill = TRUE
SPECIFICATION Spec
INVARIANT StoredPairServes
PROPERTIES SignedOutStays
SYMMETRY Symmetry
VIEW View
