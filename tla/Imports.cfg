SPECIFICATION FairSpec
CONSTANTS
    Names = {"A", "B"}
    NoName = NoName
    Segments <- MCSegments
    DotLs <- MCDotLs
    Disks <- MCDisks
    Programs <- MCPrograms
    Pseudo = Pseudo
    Cwd <- MCCwd
    LibraryDir <- MCLibraryDir
    MaxPath = 6
INVARIANTS
    TypeOK
    NoNameTwice
    OnlyProgramEvaluates
    DuplicateReportIsTrue
    ExpandsDepthFirst
    CyclesNeverExpand
PROPERTY Terminates
CHECK_DEADLOCK FALSE
