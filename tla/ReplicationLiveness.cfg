SPECIFICATION MCLivenessSpec
CONSTANTS
    Remote = {c1}
    SimulationOnly = {b1}
    Entity = {}
    ResendBase = 1
    MaxSendCount = 0
    MaxBaselines = 1
    MaxPlayers = 1
    SnapshotInterval = 1
    MayRefuse = {"Snapshot", "Resend"}
    MaxEventId = 1
    MaxSnapshotId = 3

    
PROPERTIES
    PendingIsEventuallyAcknowledged
    AdmittedClientConnects
