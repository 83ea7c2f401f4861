SPECIFICATION MCSafetySpec
CONSTANTS
    Remote = {c1}
    SimulationOnly = {}
    Entity = {x1}
    ResendBase = 1
    MaxSendCount = 2
    MaxBaselines = 2
    MaxPlayers = 1
    SnapshotInterval = 1
    MayRefuse = {"ReliableEvent"}
    MaxEventId = 2
    MaxSnapshotId = 1
INVARIANTS
    InterestStreamMatchesTracker
