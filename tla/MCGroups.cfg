SPECIFICATION MCSpec
CONSTANTS
    ann = ann
    bob = bob
    gil = gil
    Users = {ann, bob, gil}
    Admins = {ann}
    Guests = {gil}
    Listeners = {ann, bob, gil}
    Nobody = Nobody
    Mids = {11}
    GroupOf <- MCGroupOf
    MaxGroups = 2
    MaxEdits = 2
    MaxRequests = 3
    MaxTroubles = 2
    MaxGuestRequests = 2
    Apps = {app1}
    UserNames = {ann, bob}
    MaxUsers = 2
    MaxUserRequests = 4
    MaxUserTroubles = 2
    Tabs = {tab1, tab2}
    MaxTokens = 4
    MaxTokenTroubles = 2
    Editors = {e1, e2, e3}
    Values = {v1, v2}
    Fields = {f1, f2}
    Unset = Unset
    MaxSets = 4
    MaxConfigTroubles = 2
    Peers = {p1, p2, p3}
    BatchSize = 2
    MaxKeys = 4
    MaxKeyTroubles = 2
    Bridges = {b1, b2}
    Devices = {dev}
    MaxApiKeys = 4
    MaxLoginTroubles = 2
    Megolms = {megolm}
    Letters = {l1, l2}
    MaxTicks = 3
    MaxRoomTroubles = 1
CHECK_DEADLOCK FALSE
INVARIANTS AllTypesOK CacheAgrees MirrorAgrees PinsFresh ListAgrees LogoutIsFinal TokenIsHeld InstanceAgrees CommonKept ClaimedOnce FirstMessageIsRead DeviceWorks KeyedIsRead
