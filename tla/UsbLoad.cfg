SPECIFICATION FairSpec
CONSTANTS
    Base = 4
    PC_READY = 2
    PC_OK = 3
    GC_READY = 0
    GC_OK = 1
    Chunk = 2
    Timeout = 2
    Memory = 8
    HostSizes = {0, 1, 4, 5, 64, 130}
    Fifo = 3
    MaxStale = 1
INVARIANTS
    TypeOK
    WithinBuffer
    SizeFramed
    ImageIsFile
    NoMutualWait
PROPERTIES
    KeepsPromise
    WaitsEnd
CHECK_DEADLOCK FALSE
