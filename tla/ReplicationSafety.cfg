SPECIFICATION MCSafetySpec
CONSTANTS
    Remote = {c1, c2}
    SimulationOnly = {}
    Entity = {x1}
    ResendBase = 1
    MaxSendCount = 2
    MaxBaselines = 1
    MaxPlayers = 2
    SnapshotInterval = 1
    MayRefuse = {}
    MaxEventId = 3
    MaxSnapshotId = 2
SYMMETRY Symmetry
INVARIANTS
    TypeOK
    ForgottenOnlyAfterIngested
    DeltaBaselineWasApplied
    InterestStreamMatchesTracker
PROPERTY
    ImplementsReliableDelivery
