CONSTANTS
    Tiles = {t}
    Threads = {u, v}
    NoJob = NoJob
    MaxTry = 0
    MaxVersion = 1
SPECIFICATION FairSpec
INVARIANTS TypeOK NoChangeLost
PROPERTIES NeverBackwards WaitLeavesOneJob WaitEnds ThreadsEnd
CHECK_DEADLOCK FALSE
