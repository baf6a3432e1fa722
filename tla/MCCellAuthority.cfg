CONSTANTS
    Players = {a, b}
    Nobody = Nobody
    Cells = {X}
    SentTypes = {"POSITION", "CELL_CHANGE", "FOLLOWER"}
    MaxInFlight = 2
    MaxSent = 1
SPECIFICATION Spec
SYMMETRY Symmetry
INVARIANTS TypeOK OneSimulator OldAuthorityTold NotMovedByOthers
CHECK_DEADLOCK FALSE
