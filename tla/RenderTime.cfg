SPECIFICATION Spec
CONSTANTS
    Tick = 2
    Start = 7
    ServerStart = 40
    SyncInterval = 4
    MaxRewind = 4
    FutureTolerance = 1
    HistorySize = 3
    MaxTime = 16
    MaxFrame = 5
    MaxTicks = 2
    InterpolationDelay = 2
    MaxSnapshots = 3
    MaxInFlight = 2
    Speed = 7
INVARIANT RenderTimeFollowsServer
