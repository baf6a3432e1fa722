CONSTANTS
    Timers = {a, b, c}
    NoTimer = NoTimer
    Intervals = {0, 2}
SPECIFICATION FairSpec
INVARIANTS TypeOK OneOwner
PROPERTIES CalledAsAsked AskedIsCalled
CHECK_DEADLOCK FALSE
