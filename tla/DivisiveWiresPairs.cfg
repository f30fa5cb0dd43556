SPECIFICATION Spec
CONSTANTS
    NumWires = 3
    a0 = a0
    a1 = a1
    a2 = a2
    a3 = a3
    b0 = b0
    b1 = b1
    b2 = b2
    c1 = c1
    d0 = d0
    NoColumn = NoColumn
    Columns = {0, 2, 4, 6, 8, 10}
    Crossers <- PairCrossers
    FromBelow <- PairBelow
    Liaison <- PairLiaison
INVARIANTS
    TypeOK
    ColumnsOrdered
    StrictPartialOrder
    RowsRespectOrder
    RowsSeparated
    RowsTight
PROPERTIES
    ImplementsChannel
    Routed
