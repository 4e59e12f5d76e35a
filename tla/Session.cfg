SPECIFICATION Spec
CONSTANTS
    Objects = {r1, r2}
    FirstObject = r1
    MaxCalls = 3
    Limits = {0, 2, 3, 7}
    DefaultLimit = 3
    Starts <- MCStarts
    OptionLike <- MCOptionLike
    Numbers <- MCNumbers
    WordSize = 8
    Depth = 2
INVARIANTS ApiTypeOK BlocksHaveOneOwner MessageIsOfLastCall ResultIsOfLastCall
INVARIANTS MeantIsRead LimitWrapsOnlyBelowZero ExitTellsOutcome StoreReady StoreFailureIsReal
PROPERTIES ApiSpec KeepsPromise Exits
CHECK_DEADLOCK FALSE
