SPECIFICATION Spec
CONSTANTS
    ann = ann
    ios = ios
    web = web
    Users = {ann}
    Devices = {ios, web}
    Owner <- OneUser
    MaxStreams = 2
    MaxFaults = 1
    MaxCuts = 0
    MaxRestarts = 0
CHECK_DEADLOCK FALSE
INVARIANT OnlineHasStream
