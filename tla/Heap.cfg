SPECIFICATION Spec
CONSTANTS
    HeaderLen = 1
    PageLen = 3
    StartLen = 6
    MaxLen = 12
    CacheCount = 1
    CacheLen = 1
    Sizes = {1, 3}
    MaxHeld = 2
    MaxKeys = 2
INVARIANTS HeapLinked CountersAgree NoDoubleGrant OnlyMemoryPanics
PROPERTIES CallsReturn
CHECK_DEADLOCK FALSE
