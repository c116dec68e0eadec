SPECIFICATION FairSpec
CONSTANTS
    InSizes = {48}
    OutSizes = {1}
    TempSize = 4
    LZMA_IN_REQUIRED = 2
    RC_INIT_BYTES = 2
    DictSizes = {2}
    Uncompressed = {3}
    Compressed = {1, 3}
    Distances = {1}
    Lengths = {1, 2}
    InstrSize = 2
    HeaderSizes = {12}
    VliSizes = {1}
    Declared = {5}
PROPERTIES TooLongReported
CHECK_DEADLOCK FALSE
