SPECIFICATION Spec
CONSTANTS
    Sources <- MCSources
    Calls <- MCCalls
    ArgNames <- MCArgNames
    Hex <- MCHex
    Reserved <- MCReserved
    Letters <- MCLetters
    LowerTree <- LowerProgramTree
    FreeSymbols <- FreeSymbolsOf
INVARIANTS
    TypeOK
    RejectedLineIsTheFirstWrong
    NoIndexDangles
    DefinitionsAreBindings
    RefusedIfDangling
    
CHECK_DEADLOCK FALSE
