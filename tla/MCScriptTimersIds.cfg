CONSTANTS
    Timers = {a, b}
    NoTimer = NoTimer
    Intervals = {0}
SPECIFICATION Spec
SYMMETRY Symmetry
INVARIANTS IdsLeadToTimers
CHECK_DEADLOCK FALSE
