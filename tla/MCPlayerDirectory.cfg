CONSTANTS
    Players = {a, b}
    MaxUpdates = 1
SPECIFICATION FairSpec
INVARIANTS TypeOK EveryoneKnown InfosNamed
PROPERTIES LeaversForgotten
CHECK_DEADLOCK FALSE
