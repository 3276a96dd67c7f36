SPECIFICATION Spec
CONSTANTS
    Paths = {a, b}
    Tokens = {x, y}
    NoPath = NoPath
    maxFSTableSize = 145
    partitionSize = 149
    PathLen = 1
    MaxExtents = 8
    Sizes = {1, 2}
    DiskOutcomes = {TRUE, FALSE}
SYMMETRY Symmetry
INVARIANTS ExtentsTile FilesOwnExtents DataIntegrity ReportedIsDurable NoLeak
CHECK_DEADLOCK FALSE
