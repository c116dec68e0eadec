SPECIFICATION Spec
CONSTANTS
    SectorSize = 4
    PerSector = 2
    Word = 64
    MAX_FAT12 = 2
    MAX_FAT16 = 3
    MAX_FAT32 = 4
    MAX_EXFAT = 3
    Starts = {0, 3}
    MaxGpt = 2
    BootSectors <- MCBootSectors
    ExBootSectors <- MCExBootSectors
    Memory = 24
    Sizes = {0, 3, 8, 9, 23, 69}
INVARIANTS
    TypeOK
    ReadsTheFile
    SectorsInVolume
CHECK_DEADLOCK FALSE
