\* Two users of one device, two runs of start or stop at a time.
CONSTANTS
    ada = ada
    lin = lin
    t1 = t1
    t2 = t2
    Nobody = Nobody
    Stale = Stale
    MaxLive = 3
    Holders = {ada, lin}
    Tasks = {t1, t2}
SPECIFICATION PhoneSpec
INVARIANTS PhoneTypeOK StartedIsRegistered OneSubscription
SYMMETRY Symmetry
