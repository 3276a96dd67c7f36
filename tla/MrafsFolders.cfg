SPECIFICATION FoldersSpec
CONSTANTS
    f = f
    g = g
    FullPaths <- MCPaths
    FirstEntries = 3
    MaxEntries = 6
    MaxCalls = 2
    MaxFaults = 2
    Broken = Broken
    None = None
PROPERTIES ImplementsTree NothingLost RetryCompletes
CHECK_DEADLOCK FALSE
