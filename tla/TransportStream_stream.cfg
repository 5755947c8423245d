\* Buffers longer than the window, every fault, every dropped future.
SPECIFICATION FairSpec
CONSTANTS
    MaxBytes = 6
    MaxBuffer = 3
    Window = 2
    Abandons = {"write", "read"}
    Faults = {"stop", "reset", "drop", "loss"}
INVARIANTS
    IInv
    EndIsEnd
PROPERTIES
    ImplementsByteChannel
    StreamDrains
\* Streams end.
CHECK_DEADLOCK FALSE
