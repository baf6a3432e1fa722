CONSTANTS
    Tiles = {t}
    Threads = {u}
    NoJob = NoJob
    MaxTry = 0
    MaxVersion = 1
SPECIFICATION FairSpec
PROPERTIES WaitIsEnough
CHECK_DEADLOCK FALSE
