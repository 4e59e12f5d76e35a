SPECIFICATION Spec
CONSTANTS
    NestedLimit = 8
    MaxSteps = 8
    AnyOrderDepth = 0
    TermSize = 1
    Programs <- OneItemPrograms
INVARIANT ForallAsksThePredicate
CHECK_DEADLOCK FALSE
