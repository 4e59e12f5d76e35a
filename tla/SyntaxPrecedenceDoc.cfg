SPECIFICATION Spec
CONSTANTS
    Lines <- DocumentedLines
    Values <- NoValues
    Numeral <- MCNumeral
    Letters <- MCLetters
    IsMathBinder <- LineIsMathBinder
    ParseTree <- ParseExpr
    LowerTree <- LowerLineTree
    Printed <- ValueToString
INVARIANT BindsAsDocumented
CHECK_DEADLOCK FALSE
