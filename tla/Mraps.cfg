SPECIFICATION Spec
CONSTANTS
    driveSize = 44
    SectorSize = 2
    EntrySize = 5
    MaxPartitions = 7
    Sizes = {0, 1, 2, 3}
    DiskOutcomes = {TRUE, FALSE}
INVARIANTS PartitionsTile
PROPERTIES OthersUntouched
