SPECIFICATION MaabSpec
CONSTANTS
    HeaderLen = 5
    Grain = 2
    BufSize = 31
    Sizes = {2, 4, 6}
    MaxForged = 1
INVARIANTS SegmentsTile OnlyHeldIsAccepted
