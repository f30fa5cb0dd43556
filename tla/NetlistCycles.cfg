CONSTANTS
    GivenVertices <- ThreeVertices
    Added = 0
    MaxEdges = 4
    InIfaces = {a}
    OutIfaces = {x}
SPECIFICATION Spec
INVARIANT CyclesFound
CHECK_DEADLOCK FALSE
