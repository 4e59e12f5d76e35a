SPECIFICATION FairSpec
CONSTANTS
    Terms = {t1, t2, t3}
    Normal = Normal
    Failed = Failed
    NoTerm = NoTerm
    NoAnswer = NoAnswer
    AllocMayFail = TRUE
    MaxLimit = 3
    Limits <- MCLimits
INVARIANTS
    TypeOK
    UnflaggedIsNormal
    FlaggedGoesOn
    ErrorIsOwn
    TraceIsReduction
PROPERTIES
    ImplementsPromise
    Terminates
CHECK_DEADLOCK FALSE
