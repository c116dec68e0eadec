SPECIFICATION FairSpec
CONSTANTS
    Shortcuts <- MCShortcuts
    Devices <- MCDevices
INVARIANTS
    TypeOK
    PriorityRespected
    HeldDownStays
PROPERTIES
    KeepsPromise
    MainEnds
CHECK_DEADLOCK FALSE
