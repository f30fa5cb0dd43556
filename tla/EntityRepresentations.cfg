SPECIFICATION Spec
CONSTANTS
    Kinds = {"stateful", "stateless", "builtin"}
    Names <- OneName
    title = title
    NoName = NoName
    MaxSplits = 2
    MaxRepresentations = 6
INVARIANTS
    TypeOK
    SameTimingSameDelays
    SynthesizedAcyclic
    PartsSimulatable
