SPECIFICATION Spec
CONSTANTS
    NestedLimit = 8
    MaxSteps = 12
    AnyOrderDepth = 4
    TermSize = 8
    Programs <- AllPrograms
INVARIANTS
    TypeOK
    BetaIsSubstitution
    NormalOrderFindsNormalForm
    ComesToMeaning
CHECK_DEADLOCK FALSE
