SPECIFICATION Spec
CONSTANTS
    NumTypes = 5
    Registrable <- ElevenTransformations
INVARIANTS
    TypeOK
    PathsAreWalks
    WorkIsUnsettled
    AnswersAreShortest
PROPERTIES
    PathsOnlyShrink
