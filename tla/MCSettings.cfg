SPECIFICATION MCSpec
CONSTANTS
    u1 = u1
    o1 = o1
    g1 = g1
    d1 = d1
    Users = {u1}
    Others = {o1}
    Groups = {g1}
    Owner <- MCOwner
    Public = Public
    Devices = {d1}
    UserOf <- MCUserOf
    MaxTime = 2
    MaxMid = 2
    MaxRequests = 3
    MaxTroubles = 2
INVARIANTS CacheAgrees MirrorAgrees
PROPERTIES ReadIndexNeverBack
CHECK_DEADLOCK FALSE
