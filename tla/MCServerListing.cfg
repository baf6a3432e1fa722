CONSTANTS
    Names = {n}
    Modes = {m1, m2}
    FirstMode = m1
    NotListed = NotListed
    FirstRate = 3
    Slow = 2
    MaxMishaps = 1
SPECIFICATION FairSpec
INVARIANTS TypeOK UpToDate
PROPERTIES Relisted StaysListed
