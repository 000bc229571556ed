SPECIFICATION BackoffSpec
CONSTANTS
    ClockSize = 16
    MaxBackoff = 3
    JoinTime = 2
    ConnectTime = 2
INVARIANTS WaitIsBounded
PROPERTIES BackoffIsHonoured Reconnects
