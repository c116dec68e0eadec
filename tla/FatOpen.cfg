SPECIFICATION Spec
CONSTANTS
    NumFatEnt = 5
    ClusterSize = 2
    SectorSize = 1
    PerSector = 1
    MaxDir = 4
    RootEntries = 3
    Bases = {0, 1}
INVARIANTS
    TypeOK
    FindsFirst
    
CHECK_DEADLOCK FALSE
