SPECIFICATION Spec
CONSTANTS
    MaxNumArgv = 4
    Word = 16
    FileSizes = {0, 1, 2, 3, 4, 5, 13, 15, 16, 18, 31}
    Memory = 6
INVARIANTS
    TypeOK
    ArgsParsed
    PackFits
CHECK_DEADLOCK FALSE
