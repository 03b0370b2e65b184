SPECIFICATION Spec
CONSTANTS
    Metre = 2
    InitialColumns <- MCColumns
    Ownship = "auv"
    Lower <- MCLower
    MaxReceivers = 4
    Uint = 16
    ExtrapolateNav = TRUE
    LocalSoundSpeed = TRUE
    Requests <- MCRequests
    SspUpdates <- MCSspUpdates
    Reports <- MCReports
    NavUpdates <- MCNavUpdates
    SspDepths = {0, 3, 4, 7, 9}
    MaxRequests = 3
    MaxMail = 2
    MaxMessages = 4
    MaxClock = 1
INVARIANTS OwnOutput TLOfRequest
PROPERTIES SpeedInterpolates RequestOverlaysInitial RefusedForCause
CHECK_DEADLOCK FALSE
