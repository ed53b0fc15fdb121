SPECIFICATION Spec
CONSTANTS
    ann = ann
    ios = ios
    web = web
    Users = {ann}
    Devices = {ios, web}
    Owner <- OneUser
    MaxStreams = 2
    MaxFaults = 0
    MaxCuts = 0
    MaxRestarts = 0
CHECK_DEADLOCK FALSE
INVARIANT ClosedOnlyByKick
