CONSTANTS
    Cells = {X, Y}
    Actors = {a, b}
    Movers = {a}
    NoCell = NoCell
SPECIFICATION Spec
SYMMETRY Symmetry
INVARIANTS LocalsRecorded
