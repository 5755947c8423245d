\* Bodies longer than the windows, every handler and every fault.
SPECIFICATION FairSpec
CONSTANTS
    ReqFrames = 8
    RespFrames = 6
    Window = 3
    Handlers = {"collect", "echo", "ignore"}
    Faults = {"request body", "response body", "drop", "shutdown", "loss"}
INVARIANTS
    IInv
    WholeRequest
    WholeResponse
    FailsOnlyForCause
PROPERTIES
    EndsUnlessStandoff
\* The exchange comes to an end.
CHECK_DEADLOCK FALSE
