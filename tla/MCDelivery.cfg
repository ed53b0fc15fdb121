SPECIFICATION Spec
CONSTANTS
    u1 = u1
    u2 = u2
    g1 = g1
    Posts <- ToBoth
    Users = {u1, u2}
    Listeners = {u1}
    Groups = {g1}
    NoTarget = NoTarget
    Bandwidth = 2
    Senders = {s1, s2}
    ChannelSize = 2
    NewestLimit = 1
    PublicGroups = {}
    MaxSends = 2
    MaxAbandons = 1
    MaxFaults = 1
    MaxRestarts = 0
    MaxAdmin = 2
    MaxEvents = 4
SYMMETRY Requests
CHECK_DEADLOCK FALSE
INVARIANTS TypeOK TargetsCurrent PushedOnce StreamHasNoGap NothingAfterKick
