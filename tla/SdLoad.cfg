SPECIFICATION FairSpec
CONSTANTS
    NumSlots = 2
    MaxPaths = 2
    Extents = 2
    MaxPulls = 2
INVARIANTS
    TypeOK
    VolumeBacked
    NullCallOnlyAfterRemoval
    DevicesShutDown
    PathsUnspoiled
    ImageFromMountedCard
PROPERTIES
    KeepsPromise
    LoadEnds
    LostDeviceFaults
CHECK_DEADLOCK FALSE
