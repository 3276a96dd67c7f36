SPECIFICATION Spec
CONSTANTS
    Items = {a, b}
    NoItem = none
    YesSize = 0
    MaxCount = 5
INVARIANTS TypeOK
PROPERTIES ImplementsFifo
CHECK_DEADLOCK FALSE
