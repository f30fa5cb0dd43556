SPECIFICATION Spec
CONSTANTS
    NumWires = 4
    a0 = a0
    a1 = a1
    a2 = a2
    a3 = a3
    b0 = b0
    b1 = b1
    b2 = b2
    c1 = c1
    d0 = d0
    NoColumn = NoColumn
    Columns = {0, 2, 4, 6}
    Crossers <- ForkCrossers
    FromBelow <- ForkBelow
    Liaison <- ForkLiaison
INVARIANTS
    OrderComplete
    LessIsColumnClosure
    RefusesOnlyUnroutable
CHECK_DEADLOCK FALSE
