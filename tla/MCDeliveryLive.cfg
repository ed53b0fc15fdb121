SPECIFICATION FairSpec
CONSTANTS
    u1 = u1
    u2 = u2
    g1 = g1
    Users = {u1}
    Listeners = {u1}
    Groups = {g1}
    NoTarget = NoTarget
    Bandwidth = 1
    Senders = {s1, s2}
    ChannelSize = 1
    NewestLimit = 2
    PublicGroups = {g1}
    Posts <- ToGroup
    MaxSends = 2
    MaxAbandons = 1
    MaxFaults = 1
    MaxRestarts = 1
    MaxAdmin = 0
    MaxEvents = 3
CHECK_DEADLOCK FALSE
PROPERTIES EverySendArrives EveryStreamCatchesUp
