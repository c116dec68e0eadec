SPECIFICATION Spec
CONSTANTS
    NumSlots = 2
    MaxPaths = 2
    Extents = 2
    MaxPulls = 2
INVARIANT LoadFatReturns
CHECK_DEADLOCK FALSE
