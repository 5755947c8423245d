\* A response stream that may yield an error.
SPECIFICATION Spec
CONSTANTS
    ReqFrames = 1
    RespFrames = 3
    Window = 2
    Handlers = {"collect"}
    Faults = {"response body"}
INVARIANTS
    EntireResponse
\* The exchange comes to an end.
CHECK_DEADLOCK FALSE
