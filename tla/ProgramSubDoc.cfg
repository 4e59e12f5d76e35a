SPECIFICATION Spec
CONSTANTS
    Sources <- SubSources
    Calls <- NoArgs
    ArgNames <- MCArgNames
    Hex <- MCHex
    Reserved <- MCReserved
    Letters <- MCLetters
    LowerTree <- LowerProgramTree
    FreeSymbols <- FreeSymbolsOf
INVARIANT SubscriptsTakeDefinitions
CHECK_DEADLOCK FALSE
