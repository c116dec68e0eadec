SPECIFICATION Spec
CONSTANTS
    NumSlots = 2
    MaxPaths = 2
    Extents = 2
    MaxPulls = 2
INVARIANT LoadedImageComplete
CHECK_DEADLOCK FALSE
