SPECIFICATION Spec
CONSTANTS
    Lines <- MCLines
    Values <- MCValues
    Numeral <- MCNumeral
    Letters <- MCLetters
    IsMathBinder <- LineIsMathBinder
    ParseTree <- ParseExpr
    LowerTree <- LowerLineTree
    Printed <- ValueToString
INVARIANTS
    TypeOK
    ReadsAsMeant
    ScannersAgree
    ReadsBack
CHECK_DEADLOCK FALSE
