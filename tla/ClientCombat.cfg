SPECIFICATION Spec
CONSTANTS
    Local = 2
    Other = {14}
    Chunk = {1, 2, 3}
    MaxHealth = 1
    Damage = 2
    Caps = {0, 2}
    MaxMoves = 1
    MaxId = 3
    MaxInFlight = 2
PROPERTY ClientNeverOwnsCombat
