SPECIFICATION Spec
CONSTANTS
    r1 = r1
    r2 = r2
    a1 = a1
    Requests = {r1, r2}
    Actors = {a1}
    Entities = {"manifest"}
    TypeOf <- MCTypeOf
    Window = 0
    MaxClock = 1
    MaxVersion = 3
    None = None
SYMMETRY Permutation
INVARIANTS TypeOK FiguresGrow HistoryInOrder
CHECK_DEADLOCK FALSE
