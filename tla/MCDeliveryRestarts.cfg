SPECIFICATION Spec
CONSTANTS
    u1 = u1
    u2 = u2
    g1 = g1
    Posts <- ToGroup
    Users = {u1}
    Listeners = {u1}
    Groups = {g1}
    NoTarget = NoTarget
    Bandwidth = 1
    Senders = {s1, s2}
    ChannelSize = 2
    NewestLimit = 1
    PublicGroups = {}
    MaxSends = 2
    MaxAbandons = 0
    MaxFaults = 0
    MaxRestarts = 2
    MaxAdmin = 1
    MaxEvents = 3
SYMMETRY Requests
CHECK_DEADLOCK FALSE
INVARIANTS StoreIdsUnique MissedIsExplained
PROPERTIES FreshMidIsLargest StoreKeepsPromise
