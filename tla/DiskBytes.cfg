SPECIFICATION DriveSpec
CONSTANTS
    SectorLen = 3
    ChunkLen = 2
    SectorCount = 5
    FullCount = 3
    Span = 16
    MaxWrites = 1
INVARIANTS FailsOnlyForCause
PROPERTIES ImplementsByteDisk
