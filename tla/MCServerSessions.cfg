CONSTANTS
    Guids = {a, b, c}
    NoPlayer = NoPlayer
    MaxConnections = 2
    AttemptLimit = 1
    Enforce = FALSE
    Passworded = TRUE
    MaxInbox = 2
SPECIFICATION Spec
SYMMETRY Symmetry
INVARIANTS TypeOK SlotsMatchPlayers PlayersHaveSlots NoOrphanSession FloodCutOff ServedAfterGreeting
PROPERTIES StablePid PidsAllocated
