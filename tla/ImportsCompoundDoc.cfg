SPECIFICATION Spec
CONSTANTS
    Names = {"A", "B"}
    NoName = NoName
    Segments <- MCSegments
    DotLs <- MCDotLs
    Disks <- DocDisks
    Programs <- DocPrograms
    Pseudo = Pseudo
    Cwd <- MCCwd
    LibraryDir <- MCLibraryDir
    MaxPath = 6
INVARIANT CompoundUpdatesAccepted
CHECK_DEADLOCK FALSE
