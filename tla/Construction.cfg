SPECIFICATION SystemSpec
CONSTANTS
    Names <- MCNames
    Plans <- MCPlans
INVARIANTS
    TypeOK
    RelativesMutual
    NetsAsAsked
    ConnectedTogether
    StatelessSound
    StructureAsAsked
    MeantUnambiguous
    NetlistComputesStructure
    OutputsAgree
CHECK_DEADLOCK FALSE
