CONSTANTS
    GivenVertices <- FourVertices
    Added = 2
    MaxEdges = 4
    InIfaces = {a}
    OutIfaces = {x}
SPECIFICATION Spec
INVARIANTS TypeOK BehaviourKept CyclesKept
CHECK_DEADLOCK FALSE
