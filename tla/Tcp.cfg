SPECIFICATION TcpSpec
CONSTANTS
    Ports = {80, 443}
    Payloads <- MCPayloads
    Lens = {1, 3}
    Leftovers = {0}
    MaxPackets = 3
    MaxCalls = 1
INVARIANTS StreamInOrder ShortReadLeavesNone
CHECK_DEADLOCK FALSE
