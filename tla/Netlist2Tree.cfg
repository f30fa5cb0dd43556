CONSTANTS
    GivenVertices <- ThreeVertices
    Added = 4
    MaxEdges = 3
    Further <- Larger
    InIfaces = {a, b}
    OutIfaces = {x, y}
    MaxPower = 16
SPECIFICATION Spec
SYMMETRY Outputs
INVARIANTS TypeOK TreeHoldsNetlist WiresApart NoCrosstalk LinksConduct BlocksComputeNetlist TimingTold SplitOnce
