SPECIFICATION MCSpec
CONSTANTS
    Clients = {c1, c2}
    Admins = {root}
    Uids = {b1, b2}
    FirstBots = {b1}
    Grouped = {b1}
    FetchLimit = 1
    Callers = {b1, b2}
    MaxCalls = 3
    MaxRetypes = 2
    MaxMid = 2
    MaxSyncs = 4
    MaxAdmin = 1
    MaxTroubles = 2
CHECK_DEADLOCK FALSE
INVARIANTS SyncHasNoGap NoneTwice BotsKnown OnlineHasTimer
SYMMETRY Bridges
