CONSTANTS
    GivenVertices <- FourVertices
    Added = 0
    MaxEdges = 3
    InIfaces = {a}
    OutIfaces = {x, y}
SPECIFICATION Spec
INVARIANT OutputsKept
CHECK_DEADLOCK FALSE
