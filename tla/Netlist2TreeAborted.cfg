CONSTANTS
    GivenVertices <- ThreeVertices
    Added = 4
    MaxEdges = 0
    Further <- ClockedLatch
    InIfaces = {a, b}
    OutIfaces = {x}
    MaxPower = 16
SPECIFICATION Spec
INVARIANTS PathsEvaluable
