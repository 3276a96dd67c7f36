SPECIFICATION Spec
CONSTANTS
    Addrs = {a1, a2, a3}
    First = a1
    Debug = debug
    Programs = {p}
    NULL = NULL
    Enter = enter
    MaxInputs = 1
    MaxCalls = 2
    MaxCrashes = 1
INVARIANTS CallbacksPaired OneTerminalPerProgram OrphansClosing
PROPERTIES CloseServed ApplicationsClose
CHECK_DEADLOCK FALSE
