SPECIFICATION Spec
CONSTANTS
    Sources <- ExampleFour
    Calls <- NoArgs
    ArgNames <- MCArgNames
    Hex <- MCHex
    Reserved <- MCReserved
    Letters <- MCLetters
    LowerTree <- LowerProgramTree
    FreeSymbols <- FreeSymbolsOf
INVARIANT WorkedExampleIsAccepted
CHECK_DEADLOCK FALSE
