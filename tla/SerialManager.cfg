SPECIFICATION SerialSpec
CONSTANTS
    Signature <- MCSignature
    HostPackets <- MCHostPackets
    KernelPackets <- MCKernelPackets
    RawBytes = {65}
    MaxLen = 2
    Burst = 5
    MaxTyped = 1
    MaxSent = 2
    MaxWritten = 1
INVARIANTS FramesArrive PortsInOrder FramesLeaveWhole
PROPERTIES ClosedStaysQuiet AllGetsThrough
