SPECIFICATION FairSpec
CONSTANTS
    Client = {c1, c2}
    MaxPlayers = 2
    MaxHealth = 3
    Damage = 2
    Warmup = 1
    Lifetime = 2
    RespawnDelay = 2
    MaxSequence = 3
INVARIANTS
    TypeOK
    
    ArrowIdsAreFresh
PROPERTIES
    ArrowsComeFromThisLife
    DefeatedPlayerRespawns
    WarmupEnds
