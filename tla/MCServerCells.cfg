CONSTANTS
    p = p
    q = q
    wild = wild
    coast = coast
    house = house
    Players = {p, q}
    Nobody = Nobody
    Cells = {wild, coast, house}
    Exteriors = {wild, coast}
    GridAt <- Grids
    NameOf <- Names
    ViewSize = 2
    MaxSent = 1
SPECIFICATION Spec
SYMMETRY Symmetry
INVARIANTS TypeOK PointersMutual NoDanglingCells DeletesEmptyCells CellsInUse MembersHaveCellLoaded
