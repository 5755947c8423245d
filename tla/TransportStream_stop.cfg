\* A read that is dropped while it is pending.
SPECIFICATION Spec
CONSTANTS
    MaxBytes = 6
    MaxBuffer = 3
    Window = 2
    Abandons = {"read"}
    Faults = {"stop"}
INVARIANTS
    NoPanic

\* Streams end.
CHECK_DEADLOCK FALSE
