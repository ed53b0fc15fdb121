SPECIFICATION FairSpec
CONSTANTS
    Clients = {c1}
    Admins = {root}
    Uids = {b1, b2}
    FirstBots = {b1}
    Grouped = {b1}
    FetchLimit = 2
    MaxMid = 1
    MaxSyncs = 2
    MaxAdmin = 2
    MaxTroubles = 0
CHECK_DEADLOCK FALSE
PROPERTY SyncsReturn
