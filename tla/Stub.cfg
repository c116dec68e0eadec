SPECIFICATION Spec
CONSTANTS
    MemSize = 12
    Value <- MCValue
    NumSections = 3
    HeaderSize = 1
    Headers <- MCHeaders
INVARIANTS
    TypeOK
    Correct
    LoadsDol
CHECK_DEADLOCK FALSE
