SPECIFICATION Spec
CONSTANTS
    Kinds = {"stateless"}
    Names = {}
    NoName = NoName
    MaxSplits = 1
    MaxRepresentations = 5
INVARIANTS
    NetlistFound
