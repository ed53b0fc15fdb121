SPECIFICATION FairSpec
CONSTANTS
    ann = ann
    ios = ios
    web = web
    Users = {ann}
    Devices = {ios, web}
    Owner <- OneUser
    MaxStreams = 2
    MaxFaults = 1
    MaxCuts = 0
    MaxRestarts = 1
CHECK_DEADLOCK FALSE
PROPERTIES StreamsEnd UnattendedGoesOffline
