SPECIFICATION Spec
CONSTANTS
    ann = ann
    ios = ios
    web = web
    Users = {ann}
    Devices = {ios, web}
    Owner <- OneUser
    MaxStreams = 3
    MaxFaults = 1
    MaxCuts = 1
    MaxRestarts = 0
SYMMETRY AnyDevice
CHECK_DEADLOCK FALSE
INVARIANTS OnlineAsTold ClosedAfterKick DirectoryAgrees
