SPECIFICATION Spec
CONSTANTS
    NestedLimit = 8
    MaxSteps = 8
    AnyOrderDepth = 0
    TermSize = 1
    Programs <- FunctionMembershipPrograms
INVARIANT ElemIsMembershipOnLists
CHECK_DEADLOCK FALSE
